---- MODULE Spec2Model ----
(***************************************************************************)
(* A model of the Kafka telemetry exporter of src/exporter/exporter.go.     *)
(*                                                                         *)
(* Five parts share the module's variables.                                *)
(*                                                                         *)
(*   SpecCoalescer / FairCoalescer: Exporter.Collect in serialized mode    *)
(*   (allowConcurrent = false), Exporter.collectChans with its draining    *)
(*   goroutine, and the channel and wait-group skeleton of                 *)
(*   Exporter.collect (the sends on its output channel, the unbuffered     *)
(*   topic channel, the topic workers).                                    *)
(*                                                                         *)
(*   SpecLag: Exporter.metricsForLag with getNextHigherOffset and          *)
(*   getNextLowerOffset, over timelines drawn from bounded sets.           *)
(*                                                                         *)
(*   SpecScrape: one run of Exporter.collect on a fresh exporter, with     *)
(*   the metrics of getTopicMetrics and getConsumerGroupMetrics, over a    *)
(*   small cluster whose RPCs fail as the set `faults` says.               *)
(*                                                                         *)
(*   SpecTimeline: the scrapes of one exporter, in serialized or in        *)
(*   concurrent mode, from their consumer-group region on, with            *)
(*   Exporter.RunPruner beside them: the writers and the readers of        *)
(*   consumerGroupLagTable and its mutex.                                  *)
(*                                                                         *)
(*   SpecPool / FairPool: the topic phase of Exporter.collect, its         *)
(*   producer loop and its loopTopics workers, over topic lists long       *)
(*   enough for more than one worker; SpecLegacy: the same phase as        *)
(*   src/unnamed/part_001 has it.                                          *)
(*                                                                         *)
(* A metric is a tuple <<name, labels, value>>.  A channel created by      *)
(* make() is identified by the Collect call that created it.               *)
(***************************************************************************)
EXTENDS Integers, Sequences, FiniteSets, Bags, TLC

\* ------------------------------------------------------------------ bounds

\* Collect calls issued over a run.
MaxCalls == 2
\* Topics the client reports.
MaxTopics == 2
\* Largest configured topicWorkers.
MaxTopicWorkers == 1

\* Samples a timeline entry holds.
MaxSamples == 3

\* Scrapes made over a run of the exporter with its pruner.
MaxScrapes == 3

Calls == 1..MaxCalls
\* The brokers the client reports: e.client.Brokers().
Brokers == <<"b1">>
Workers == 1..MaxTopics

VARIABLES
    topicWorkers,   \* Exporter.topicWorkers
    sgMutex,        \* Exporter.sgMutex: 0 free, else the collectChans run holding it
    sgWaitCh,       \* Exporter.sgWaitCh: 0 nil, else a channel
    sgChans,        \* Exporter.sgChans: the registered sinks, by Collect call
    closedCh,       \* the waiter channels that have been closed
    calls,          \* Collect calls entered so far
    cpc,            \* each Collect call's position
    waiter,         \* each Collect call's local `waiter`
    sink,           \* what each Collect call's channel ch has delivered to its reader
    tpc,            \* each collectChans run's position
    drain,          \* the draining goroutine of each collectChans run
    held,           \* the metric that goroutine received and has not appended yet
    container,      \* collectChans' local `container`
    rp,             \* the replay loops' locals, of the run holding sgMutex
    ppc,            \* each collect run's position
    sent,           \* the metrics each collect run has sent on its channel
    pidx,           \* collect: loop index (over the brokers, then over the topics)
    ptopics,        \* collect: topics, each as whether the topic filters accept it
    wg,             \* collect: the wait group's counter
    tchClosed,      \* collect: topicChannel is closed
    worker,         \* collect: each loopTopics goroutine's position
    wtopic,         \* collect: the topic a loopTopics goroutine is handling
    iMap,           \* consumerGroupLagTable.iMap: (group, topic, partition) -> offset -> instant
    iMu,            \* consumerGroupLagTable.mu is held
    lpc,            \* metricsForLag's position
    ltopics,        \* metricsForLag: the (group, topic) pairs still to visit
    lcur,           \* metricsForLag: the (group, topic) pair being visited
    lresp,          \* metricsForLag: response.Blocks[topic], partition -> committed offset
    lparts,         \* metricsForLag: the partitions of the pair still to visit
    llocals,        \* metricsForLag: the locals of the last estimate
    lout,           \* the metrics metricsForLag has sent on ch
    topicFilter,    \* Exporter.topicFilter: the topics the regexp matches
    topicExclude,   \* Exporter.topicExclude: the topics the regexp matches
    groupFilter,    \* Exporter.groupFilter: the groups the regexp matches
    groupExclude,   \* Exporter.groupExclude: the groups the regexp matches
    offsetShowAll,  \* Exporter.offsetShowAll
    useZooKeeperLag, \* Exporter.useZooKeeperLag
    faults,         \* the RPCs that fail during the scrape
    committed,      \* the cluster: group -> (topic, partition) -> committed offset
    assignment,     \* the cluster: group -> the (topic, partition)s of its member
    coordinator,    \* the cluster: group -> the broker that lists it
    clientBrokers,  \* e.client.Brokers() now: the ids of the brokers
    spc,            \* collect in full: the position of its own goroutine
    sidx,           \* collect in full: the producer loop's index into topics
    offset,         \* collect in full: the local map offset, topic -> partition -> newest
    sworker,        \* collect in full: each loopTopics goroutine, or the topic it handles
    swg,            \* collect in full: the wait group's counter
    pending,        \* collect in full: the brokers whose getConsumerGroupMetrics has not run
    updates,        \* the calls of consumerGroupLagTable.createOrUpdate made
    ran,            \* the regions of collect that have run
    sout,           \* the metrics collect has sent on ch, as a bag
    nextMetadataRefresh, \* Exporter.nextMetadataRefresh, an instant
    snow,           \* collect in full: what time.Now() answers at "now := time.Now()"
    refreshed,      \* collect in full: e.client.RefreshMetadata() has been called
    allowConcurrent, \* Exporter.allowConcurrent
    mu,             \* Exporter.mu: 0 free, else the scrape whose group worker holds it
    started,        \* the scrapes entered so far
    produced,       \* the messages produced to each partition since the exporter started
    tscr,           \* each scrape's position from its consumer-group region on
    toff,           \* each scrape's offset map: the newest offset it has read
    tpend,          \* each scrape's group worker: the partition blocks still to handle
    tcur,           \* each scrape's group worker: the partition block being handled
    prunerPc,       \* RunPruner's position
    tickFailed,     \* a tick of RunPruner could not construct its client
    quit,           \* RunPruner's quit channel has been signalled
    poolTopics,     \* the topic pool: topics, what e.client.Topics() answered
    poolPc,         \* the topic pool: the position of collect's own goroutine
    poolIdx,        \* the topic pool: the producer loop's index into topics
    poolWg,         \* the topic pool: the wait group's counter
    topicChannel,   \* the topic pool: topicChannel is "open" or "closed"
    loopTopics,     \* the topic pool: each loopTopics goroutine, or the topic it handles
    deferred,       \* the topic pool: the deferred calls each loopTopics goroutine holds
    handled,        \* the topic pool: the getTopicMetrics calls made, <<worker, topic>>, as a bag
    poolOut         \* the topic pool: the metrics sent on ch, as a bag

cfgVars == <<topicWorkers>>
coalVars == <<sgMutex, sgWaitCh, sgChans, closedCh, calls, cpc, waiter, sink>>
taskVars == <<tpc, drain, held, container, rp>>
pipeVars == <<ppc, sent, pidx, ptopics, wg, tchClosed, worker, wtopic>>
lagVars == <<iMap, iMu, lpc, ltopics, lcur, lresp, lparts, llocals, lout>>
scfgVars == <<topicFilter, topicExclude, groupFilter, groupExclude, offsetShowAll, useZooKeeperLag>>
senvVars == <<faults, committed, assignment, coordinator>>
srunVars == <<clientBrokers, spc, sidx, offset, sworker, swg, pending, updates, ran, sout>>
refreshVars == <<nextMetadataRefresh, snow, refreshed>>
tlVars == <<allowConcurrent, mu, started, produced, tscr, toff, tpend, tcur, prunerPc, tickFailed, quit>>
scrapeVars == <<scfgVars, senvVars, srunVars, refreshVars, tlVars>>
poolVars == <<poolTopics, poolPc, poolIdx, poolWg, topicChannel, loopTopics, deferred, handled, poolOut>>
vars == <<cfgVars, coalVars, taskVars, pipeVars, lagVars, scrapeVars, poolVars>>

NoMetric == <<>>
NoReplay == [chans |-> <<>>, i |-> 1, cont |-> <<>>, j |-> 1]

\* A sequence's elements as a bag.
RECURSIVE BagOfSeq(_)
BagOfSeq(s) ==
    IF s = <<>> THEN EmptyBag ELSE BagOfSeq(Tail(s)) (+) SetToBag({Head(s)})

\* ------------------------------------------------------ Exporter.Collect

\* "if len(e.sgChans) == 1", with the always-true comparison as its mutant.
IsFirstAlways(chans) ==
    Len(chans) >= 1

IsFirst(chans) ==
    Len(chans) = 1

\* Collect, from Lock to Unlock: register the sink, start a collection when
\* the sink is the first, capture the current waiter.
Collect(c) ==
    /\ c = calls + 1
    /\ c <= MaxCalls
    /\ sgMutex = 0
    /\ LET chans == Append(sgChans, c)
           first == IsFirst(chans)
           wch == IF first THEN c ELSE sgWaitCh
       IN  /\ sgChans' = chans
           /\ sgWaitCh' = wch
           /\ waiter' = [waiter EXCEPT ![c] = wch]
           /\ tpc' = IF first THEN [tpc EXCEPT ![c] = "collect"] ELSE tpc
           /\ drain' = IF first THEN [drain EXCEPT ![c] = "recv"] ELSE drain
           /\ ppc' = IF first THEN [ppc EXCEPT ![c] = "brokers"] ELSE ppc
    /\ calls' = c
    /\ cpc' = [cpc EXCEPT ![c] = "waiting"]
    /\ UNCHANGED <<scrapeVars, lagVars, cfgVars, poolVars, sgMutex, closedCh, sink, held, container, rp>>
    /\ UNCHANGED <<sent, pidx, ptopics, wg, tchClosed, worker, wtopic>>

\* "<-waiter" completes once the channel is closed; without the wait as its
\* mutant.
WaiterReturnsAtOnce(ch, closed) ==
    TRUE

WaiterReturns(ch, closed) ==
    ch \in closed

\* "<-waiter": the call returns once its waiter is closed; its reader then
\* drops the channel.
CollectReturn(c) ==
    /\ cpc[c] = "waiting"
    /\ WaiterReturns(waiter[c], closedCh)
    /\ cpc' = [cpc EXCEPT ![c] = "returned"]
    /\ sink' = [sink EXCEPT ![c] = <<>>]
    /\ sent' = IF \E d \in Calls \ {c} : cpc[d] = "waiting" /\ waiter[d] = waiter[c]
               THEN sent
               ELSE [sent EXCEPT ![waiter[c]] = <<>>]
    /\ UNCHANGED <<scrapeVars, lagVars, cfgVars, poolVars, sgMutex, sgWaitCh, sgChans, closedCh, calls, waiter>>
    /\ UNCHANGED <<taskVars, ppc, pidx, ptopics, wg, tchClosed, worker, wtopic>>

\* ------------------------------------------------- Exporter.collectChans

\* `original` is closed once collectChans has passed close(original).
OriginalClosed(k) ==
    tpc[k] \notin {"none", "collect"}

\* The draining goroutine: "container = append(container, metric)".
DrainAppend(k) ==
    /\ drain[k] = "append"
    /\ container' = [container EXCEPT ![k] =
           IF tpc[k] = "done" THEN <<>> ELSE Append(@, held[k])]
    /\ held' = [held EXCEPT ![k] = NoMetric]
    /\ drain' = [drain EXCEPT ![k] = IF OriginalClosed(k) THEN "exit" ELSE "recv"]
    /\ UNCHANGED <<scrapeVars, lagVars, cfgVars, poolVars, coalVars, tpc, rp, pipeVars>>

\* e.collect(original) has returned: close(original).  A draining goroutine
\* that is waiting in "range original" leaves its loop.
CCCloseOriginal(k) ==
    /\ tpc[k] = "collect"
    /\ ppc[k] = "ret"
    /\ tpc' = [tpc EXCEPT ![k] = "lock"]
    /\ drain' = [drain EXCEPT ![k] = IF @ = "recv" THEN "exit" ELSE @]
    /\ UNCHANGED <<scrapeVars, lagVars, cfgVars, poolVars, coalVars, held, container, rp, pipeVars>>

\* e.sgMutex.Lock(), and "range e.sgChans" evaluates the slice.
CCLock(k) ==
    /\ tpc[k] = "lock"
    /\ sgMutex = 0
    /\ sgMutex' = k
    /\ tpc' = [tpc EXCEPT ![k] = "outer"]
    /\ rp' = [NoReplay EXCEPT !.chans = sgChans]
    /\ UNCHANGED <<scrapeVars, lagVars, cfgVars, poolVars, sgWaitCh, sgChans, closedCh, calls, cpc, waiter, sink>>
    /\ UNCHANGED <<drain, held, container, pipeVars>>

\* What "range container" reads.  The read is not ordered with the draining
\* goroutine's append: it sees the slice as that goroutine has left it so far.
RangeContainer(k) ==
    container[k]

\* The inner loop starts for the next sink.
CCRangeContainer(k) ==
    /\ tpc[k] = "outer"
    /\ rp.i <= Len(rp.chans)
    /\ rp' = [rp EXCEPT !.cont = RangeContainer(k), !.j = 1]
    /\ tpc' = [tpc EXCEPT ![k] = "inner"]
    /\ UNCHANGED <<scrapeVars, lagVars, cfgVars, poolVars, coalVars, drain, held, container, pipeVars>>

\* "ch <- metric"
CCReplay(k) ==
    /\ tpc[k] = "inner"
    /\ rp.j <= Len(rp.cont)
    /\ sink' = [sink EXCEPT ![rp.chans[rp.i]] = Append(@, rp.cont[rp.j])]
    /\ rp' = [rp EXCEPT !.j = @ + 1]
    /\ UNCHANGED <<scrapeVars, lagVars, cfgVars, poolVars, sgMutex, sgWaitCh, sgChans, closedCh, calls, cpc, waiter>>
    /\ UNCHANGED <<tpc, drain, held, container, pipeVars>>

\* The inner loop ends.
CCNextChan(k) ==
    /\ tpc[k] = "inner"
    /\ rp.j > Len(rp.cont)
    /\ rp' = [rp EXCEPT !.i = @ + 1]
    /\ tpc' = [tpc EXCEPT ![k] = "outer"]
    /\ UNCHANGED <<scrapeVars, lagVars, cfgVars, poolVars, coalVars, drain, held, container, pipeVars>>

\* The channels collectChans closes at its end: its parameter quit.
QuitClosed(k) ==
    {k}

\* "e.sgChans = e.sgChans[:0]", with the slice left as it is as its mutant.
ResetSliceKept(chans) ==
    chans

ResetSlice(chans) ==
    <<>>

\* "e.sgChans = e.sgChans[:0]; close(quit); e.sgMutex.Unlock()"
CCReset(k) ==
    /\ tpc[k] = "outer"
    /\ rp.i > Len(rp.chans)
    /\ sgChans' = ResetSlice(sgChans)
    /\ closedCh' = closedCh \cup QuitClosed(k)
    /\ sgMutex' = 0
    /\ tpc' = [tpc EXCEPT ![k] = "done"]
    /\ rp' = NoReplay
    /\ container' = IF drain[k] = "exit" THEN [container EXCEPT ![k] = <<>>] ELSE container
    /\ UNCHANGED <<scrapeVars, lagVars, cfgVars, poolVars, sgWaitCh, calls, cpc, waiter, sink, drain, held, pipeVars>>

\* ------------------------------------- Exporter.collect: channel skeleton

\* A send on collect's channel ch: a rendezvous with the draining goroutine.
CanSend(k) ==
    drain[k] = "recv"

Send(k, m) ==
    /\ CanSend(k)
    /\ drain' = [drain EXCEPT ![k] = "append"]
    /\ held' = [held EXCEPT ![k] = m]
    /\ sent' = [sent EXCEPT ![k] = Append(@, m)]

\* The clusterBrokers metric.
PBrokers(k) ==
    /\ ppc[k] = "brokers"
    /\ Send(k, <<"kafka_brokers", <<>>, Len(Brokers)>>)
    /\ pidx' = [pidx EXCEPT ![k] = 1]
    /\ ppc' = [ppc EXCEPT ![k] = "brokerInfo"]
    /\ UNCHANGED <<scrapeVars, lagVars, cfgVars, poolVars, coalVars, tpc, container, rp>>
    /\ UNCHANGED <<ptopics, wg, tchClosed, worker, wtopic>>

\* One clusterBrokerInfo metric per broker.
PBrokerInfo(k) ==
    /\ ppc[k] = "brokerInfo"
    /\ pidx[k] <= Len(Brokers)
    /\ Send(k, <<"kafka_broker_info", <<Brokers[pidx[k]]>>, 1>>)
    /\ pidx' = [pidx EXCEPT ![k] = @ + 1]
    /\ UNCHANGED <<scrapeVars, lagVars, cfgVars, poolVars, coalVars, tpc, container, rp>>
    /\ UNCHANGED <<ppc, ptopics, wg, tchClosed, worker, wtopic>>

\* The size of the worker pool, with the guard N > 1 dropped as its mutant.
NumWorkersUnguarded(n, tw) ==
    IF n \div 2 < tw THEN n \div 2 ELSE tw

\* The pool size with the larger of the two taken: a mutant.
NumWorkersMax(n, tw) ==
    IF n > 1
    THEN IF n \div 2 > tw THEN n \div 2 ELSE tw
    ELSE n

NumWorkers(n, tw) ==
    IF n > 1
    THEN IF n \div 2 < tw THEN n \div 2 ELSE tw
    ELSE n

\* e.client.Topics() fails: collect returns.
PTopicsError(k) ==
    /\ ppc[k] = "brokerInfo"
    /\ pidx[k] > Len(Brokers)
    /\ ppc' = [ppc EXCEPT ![k] = "ret"]
    /\ pidx' = [pidx EXCEPT ![k] = 1]
    /\ UNCHANGED <<scrapeVars, lagVars, cfgVars, poolVars, coalVars, taskVars>>
    /\ UNCHANGED <<sent, ptopics, wg, tchClosed, worker, wtopic>>

\* e.client.Topics() succeeds: make the topic channel, start N workers.
PTopics(k) ==
    /\ ppc[k] = "brokerInfo"
    /\ pidx[k] > Len(Brokers)
    /\ \E n \in 0..MaxTopics :
          /\ \E topics \in [1..n -> BOOLEAN] : ptopics' = [ptopics EXCEPT ![k] = topics]
          /\ worker' = [worker EXCEPT ![k] =
                 [w \in Workers |->
                     IF w <= NumWorkers(n, topicWorkers) THEN "idle" ELSE "off"]]
    /\ pidx' = [pidx EXCEPT ![k] = 1]
    /\ ppc' = [ppc EXCEPT ![k] = "produce"]
    /\ UNCHANGED <<scrapeVars, lagVars, cfgVars, poolVars, coalVars, taskVars>>
    /\ UNCHANGED <<sent, wg, tchClosed, wtopic>>

\* The producer loop meets a topic the filter rejects.
PSkipTopic(k) ==
    /\ ppc[k] = "produce"
    /\ pidx[k] <= Len(ptopics[k])
    /\ ~ptopics[k][pidx[k]]
    /\ pidx' = [pidx EXCEPT ![k] = @ + 1]
    /\ UNCHANGED <<scrapeVars, lagVars, cfgVars, poolVars, coalVars, taskVars>>
    /\ UNCHANGED <<ppc, sent, ptopics, wg, tchClosed, worker, wtopic>>

\* The producer loop meets a topic the filter accepts: wg.Add(1) and
\* "topicChannel <- topic", which completes when a worker receives.
PProduce(k) ==
    /\ ppc[k] = "produce"
    /\ pidx[k] <= Len(ptopics[k])
    /\ ptopics[k][pidx[k]]
    /\ \E w \in Workers :
          /\ worker[k][w] = "idle"
          /\ worker' = [worker EXCEPT ![k][w] = "busy"]
          /\ wtopic' = [wtopic EXCEPT ![k][w] = pidx[k]]
    /\ wg' = [wg EXCEPT ![k] = @ + 1]
    /\ pidx' = [pidx EXCEPT ![k] = @ + 1]
    /\ UNCHANGED <<scrapeVars, lagVars, cfgVars, poolVars, coalVars, taskVars>>
    /\ UNCHANGED <<ppc, sent, ptopics, tchClosed>>

\* close(topicChannel): every loopTopics goroutine waiting on the channel
\* receives "closed" and ends.
PCloseTopics(k) ==
    /\ ppc[k] = "produce"
    /\ pidx[k] > Len(ptopics[k])
    /\ tchClosed' = [tchClosed EXCEPT ![k] = TRUE]
    /\ worker' = [worker EXCEPT ![k] =
           [w \in Workers |-> IF worker[k][w] = "idle" THEN "exit" ELSE worker[k][w]]]
    /\ ppc' = [ppc EXCEPT ![k] = "wait"]
    /\ UNCHANGED <<scrapeVars, lagVars, cfgVars, poolVars, coalVars, taskVars>>
    /\ UNCHANGED <<sent, pidx, ptopics, wg, wtopic>>

\* getTopicMetrics: the topicPartitions metric, then wg.Done(); loopTopics
\* receives again, and ends if the topic channel is closed.
WTopic(k, w) ==
    /\ worker[k][w] = "busy"
    /\ Send(k, <<"kafka_topic_partitions", <<wtopic[k][w]>>, 1>>)
    /\ wg' = [wg EXCEPT ![k] = @ - 1]
    /\ worker' = [worker EXCEPT ![k][w] = IF tchClosed[k] THEN "exit" ELSE "idle"]
    /\ wtopic' = [wtopic EXCEPT ![k][w] = 0]
    /\ UNCHANGED <<scrapeVars, lagVars, cfgVars, poolVars, coalVars, tpc, container, rp>>
    /\ UNCHANGED <<ppc, pidx, ptopics, tchClosed>>

\* wg.Wait() after the topic phase; the topic phase's locals are dead.
PWait(k) ==
    /\ ppc[k] = "wait"
    /\ wg[k] = 0
    /\ ppc' = [ppc EXCEPT ![k] = "groups"]
    /\ pidx' = [pidx EXCEPT ![k] = 1]
    /\ ptopics' = [ptopics EXCEPT ![k] = <<>>]
    /\ tchClosed' = [tchClosed EXCEPT ![k] = FALSE]
    /\ worker' = [worker EXCEPT ![k] = [w \in Workers |-> "off"]]
    /\ UNCHANGED <<scrapeVars, lagVars, cfgVars, poolVars, coalVars, taskVars>>
    /\ UNCHANGED <<sent, wg, wtopic>>

\* The consumer-group fan-out and the lag pass end with a metric.
PTail(k) ==
    /\ ppc[k] = "groups"
    /\ Send(k, <<"kafka_consumer_lag_millis", <<"g", "t", 0>>, 0>>)
    /\ ppc' = [ppc EXCEPT ![k] = "ret"]
    /\ UNCHANGED <<scrapeVars, lagVars, cfgVars, poolVars, coalVars, tpc, container, rp>>
    /\ UNCHANGED <<pidx, ptopics, wg, tchClosed, worker, wtopic>>

\* ------------------------------------------------------- specifications

\* No Collect call has been made.
CoalescerAtRest ==
    /\ sgMutex = 0
    /\ sgWaitCh = 0
    /\ sgChans = <<>>
    /\ closedCh = {}
    /\ calls = 0
    /\ cpc = [c \in Calls |-> "init"]
    /\ waiter = [c \in Calls |-> 0]
    /\ sink = [c \in Calls |-> <<>>]
    /\ tpc = [c \in Calls |-> "none"]
    /\ drain = [c \in Calls |-> "none"]
    /\ held = [c \in Calls |-> NoMetric]
    /\ container = [c \in Calls |-> <<>>]
    /\ rp = NoReplay
    /\ ppc = [c \in Calls |-> "none"]
    /\ sent = [c \in Calls |-> <<>>]
    /\ pidx = [c \in Calls |-> 1]
    /\ ptopics = [c \in Calls |-> <<>>]
    /\ wg = [c \in Calls |-> 0]
    /\ tchClosed = [c \in Calls |-> FALSE]
    /\ worker = [c \in Calls |-> [w \in Workers |-> "off"]]
    /\ wtopic = [c \in Calls |-> [w \in Workers |-> 0]]

\* The lag pass is not running and the timeline is empty.
LagAtRest ==
    /\ iMap = <<>>
    /\ iMu = FALSE
    /\ lpc = "idle"
    /\ ltopics = {}
    /\ lcur = <<>>
    /\ lresp = <<>>
    /\ lparts = {}
    /\ llocals = <<>>
    /\ lout = <<>>

\* The cluster of the full scrape.
STopics == <<"t", "x">>
SGroups == {"g", "h"}
ClusterBrokers == {1, 2}
SWorkers == 1..Len(STopics)

\* No full scrape is running.
ScrapeAtRest ==
    /\ topicFilter = {"t", "x"}
    /\ topicExclude = {}
    /\ groupFilter = SGroups
    /\ groupExclude = {}
    /\ offsetShowAll = TRUE
    /\ useZooKeeperLag = FALSE
    /\ faults = {}
    /\ committed = <<>>
    /\ assignment = <<>>
    /\ coordinator = <<>>
    /\ clientBrokers = ClusterBrokers
    /\ spc = "none"
    /\ sidx = 1
    /\ offset = <<>>
    /\ sworker = [w \in SWorkers |-> "off"]
    /\ swg = 0
    /\ pending = {}
    /\ updates = {}
    /\ ran = {}
    /\ sout = EmptyBag
    /\ nextMetadataRefresh = 0
    /\ snow = 0
    /\ refreshed = FALSE

\* The scrapes of the exporter with its pruner.
Scrapes == 1..MaxScrapes

\* No scrape has been made and RunPruner has not been started.
TimelineAtRest ==
    /\ allowConcurrent = FALSE
    /\ mu = 0
    /\ started = 0
    /\ produced = 0
    /\ tscr = [s \in Scrapes |-> "idle"]
    /\ toff = [s \in Scrapes |-> 0]
    /\ tpend = [s \in Scrapes |-> {}]
    /\ tcur = [s \in Scrapes |-> 0]
    /\ prunerPc = "off"
    /\ tickFailed = FALSE
    /\ quit = FALSE

\* The topic pool, with room for a second worker: N is at most half the
\* number of topics.
PoolTopicNames == <<"t", "x", "y", "z", "u", "v", "w", "q">>
MaxPoolTopics == MaxTopics + 2
PoolWorkers == 1..(MaxTopicWorkers + 1)

\* No topic pool is running.
PoolAtRest ==
    /\ poolTopics = <<>>
    /\ poolPc = "none"
    /\ poolIdx = 1
    /\ poolWg = 0
    /\ topicChannel = "open"
    /\ loopTopics = [w \in PoolWorkers |-> "off"]
    /\ deferred = [w \in PoolWorkers |-> 0]
    /\ handled = EmptyBag
    /\ poolOut = EmptyBag

InitCoalescer ==
    /\ topicWorkers \in 0..MaxTopicWorkers
    /\ CoalescerAtRest
    /\ PoolAtRest
    /\ LagAtRest
    /\ ScrapeAtRest
    /\ TimelineAtRest

\* Every step but the arrival of a Collect call.
CoalescerProgress ==
    \E k \in Calls :
        \/ CollectReturn(k)
        \/ DrainAppend(k)
        \/ CCCloseOriginal(k)
        \/ CCLock(k)
        \/ CCRangeContainer(k)
        \/ CCReplay(k)
        \/ CCNextChan(k)
        \/ CCReset(k)
        \/ PBrokers(k)
        \/ PBrokerInfo(k)
        \/ PTopicsError(k)
        \/ PTopics(k)
        \/ PSkipTopic(k)
        \/ PProduce(k)
        \/ PCloseTopics(k)
        \/ PWait(k)
        \/ PTail(k)
        \/ \E w \in Workers : WTopic(k, w)

NextCoalescer ==
    \/ \E c \in Calls : Collect(c)
    \/ CoalescerProgress

SpecCoalescer ==
    InitCoalescer /\ [][NextCoalescer]_vars

\* Goroutines are scheduled, broker calls return and sinks are drained.
FairCoalescer ==
    SpecCoalescer /\ WF_vars(CoalescerProgress)

\* ------------------------------------------------ time and float64 values

\* Instants and durations are counted in ticks of 1/TicksPerMilli ms, so that
\* the truncations of UnixNano()/1000000 and Duration.Milliseconds() are kept.
TicksPerMilli == 2

Millis(ms) ==
    ms * TicksPerMilli

\* Go's integer division, truncating toward zero.
TruncDiv(a, b) ==
    IF a >= 0 THEN a \div b ELSE -((-a) \div b)

\* t.UnixNano()/1000000
UnixMilli(t) ==
    TruncDiv(t, TicksPerMilli)

\* t.Sub(u).Milliseconds()
SubMilliseconds(t, u) ==
    TruncDiv(t - u, TicksPerMilli)

Abs(x) ==
    IF x < 0 THEN -x ELSE x

Sign(x) ==
    IF x < 0 THEN -1 ELSE IF x > 0 THEN 1 ELSE 0

RECURSIVE Gcd(_, _)
Gcd(a, b) ==
    IF b = 0 THEN a ELSE Gcd(b, a % b)

\* A float64 value as the fraction <<numerator, denominator>> in lowest terms
\* with a positive denominator; the rounding of float64 is not modelled.
\* Denominator 0 stands for +Inf, -Inf and NaN (numerator 1, -1, 0).
Rat(n, d) ==
    IF d = 0
    THEN <<Sign(n), 0>>
    ELSE LET g == Gcd(Abs(n), Abs(d))
         IN  <<(Sign(d) * n) \div g, Abs(d) \div g>>

\* float64(n)
Float(n) ==
    <<n, 1>>

\* strconv.FormatInt(n, 10), n >= 0
RECURSIVE FormatInt(_)
FormatInt(n) ==
    LET digit == <<"0", "1", "2", "3", "4", "5", "6", "7", "8", "9">>[(n % 10) + 1]
    IN  IF n < 10 THEN digit ELSE FormatInt(n \div 10) \o digit

\* ------------------------------------ getNextHigherOffset / getNextLowerOffset

\* The sweeps index the slice from 0 as the source does.
At(offsets, index) ==
    offsets[index + 1]

RECURSIVE HigherLoop(_, _, _, _)
HigherLoop(offsets, k, index, max) ==
    IF max >= k /\ index > 0
    THEN IF At(offsets, index - 1) < k
         THEN max
         ELSE HigherLoop(offsets, k, index - 1, At(offsets, index))
    ELSE max

\* A sweep that answers the first offset, as a mutant.
getNextHigherOffsetLowest(offsets, k) ==
    At(offsets, 0)

getNextHigherOffset(offsets, k) ==
    HigherLoop(offsets, k, Len(offsets) - 1, At(offsets, Len(offsets) - 1))

RECURSIVE LowerLoop(_, _, _, _)
LowerLoop(offsets, k, index, min) ==
    IF min <= k /\ index < Len(offsets) - 1
    THEN IF At(offsets, index + 1) > k
         THEN min
         ELSE LowerLoop(offsets, k, index + 1, At(offsets, index))
    ELSE min

\* A sweep that never advances, as a mutant.
getNextLowerOffsetFirst(offsets, k) ==
    At(offsets, 0)

getNextLowerOffset(offsets, k) ==
    LowerLoop(offsets, k, 0, At(offsets, 0))

\* ------------------------------------------------ Exporter.metricsForLag

LagGroups == {"g"}
LagTopics == {"t"}
LagPartitions == {0, 1}
LagKeys == LagGroups \X LagTopics \X LagPartitions

\* The producer offsets a timeline entry may hold.
SampleIndex == 1..MaxSamples
SampleOffset(i) ==
    100 * i

\* The instant of the first sample.
T0 ==
    Millis(1000)

\* The instants at which the producer offsets were seen: at a steady rate on
\* whole milliseconds, or at a falling rate off them.
SampleInstant(shape, i) ==
    IF shape = "steady"
    THEN T0 + Millis(10000 * (i - 1))
    ELSE T0 + Millis(10000 * (i - 1) * (i - 1)) + (i % 2)

Timelines ==
    {[o \in {SampleOffset(i) : i \in I} |-> SampleInstant(shape, o \div 100)] :
        I \in SUBSET SampleIndex \ {{}}, shape \in {"steady", "falling"}}

\* The committed offsets the admin client may report; -1 is "no commit".
CommittedOffsets ==
    {-1} \cup {50 * j : j \in 1..(2 * MaxSamples)} \cup {100 * (MaxSamples + 2)}

\* The readings of time.Now() during the lag pass.
NowValues ==
    {T0 + Millis(30000), T0 + Millis(10000 * MaxSamples * MaxSamples)}

\* sort.Slice(producedOffsets, ...): the keys in ascending order.
RECURSIVE SortedOffsets(_)
SortedOffsets(S) ==
    IF S = {}
    THEN <<>>
    ELSE LET m == CHOOSE x \in S : \A y \in S : x <= y
         IN  <<m>> \o SortedOffsets(S \ {m})

\* The estimate with the sign of the correction term reversed, as a mutant.
LagMillisPlus(offsets, upper, lower, c, now) ==
    LET prod == (upper - c) * SubMilliseconds(offsets[upper], offsets[lower])
        den == upper - lower
    IN  IF den = 0
        THEN Rat(-prod, 0)
        ELSE Rat((UnixMilli(now) - UnixMilli(offsets[upper])) * den - prod, den)

\* now - px, with px = t(upper) - (upper - c) * (t(upper) - t(lower)) / (upper - lower)
LagMillis(offsets, upper, lower, c, now) ==
    LET prod == (upper - c) * SubMilliseconds(offsets[upper], offsets[lower])
        den == upper - lower
    IN  IF den = 0
        THEN Rat(prod, 0)
        ELSE Rat((UnixMilli(now) - UnixMilli(offsets[upper])) * den + prod, den)

\* "for offsetKey := range offsets": the keys in any order, each once.
RangeOrders(S) ==
    {keys \in [1..Cardinality(S) -> S] :
        \A i, j \in 1..Cardinality(S) : keys[i] = keys[j] => i = j}

RECURSIVE SortInsert(_, _)
SortInsert(x, s) ==
    IF s = <<>> \/ x < Head(s)
    THEN <<x>> \o s
    ELSE <<Head(s)>> \o SortInsert(x, Tail(s))

\* The slice left as appended, as a mutant of the sort.
SortSliceNone(s) ==
    s

\* sort.Slice(producedOffsets, less) with less(i, j) = producedOffsets[i] < producedOffsets[j]
RECURSIVE SortSlice(_)
SortSlice(s) ==
    IF s = <<>> THEN <<>> ELSE SortInsert(Head(s), SortSlice(Tail(s)))

\* The branch of the estimate: extrapolation iff c is below the first sample.
\* Its mutant compares with <=.
UsesExtrapolationOrEqual(producedOffsets, c) ==
    c <= producedOffsets[1]

UsesExtrapolation(producedOffsets, c) ==
    c < producedOffsets[1]

\* The upper bound of the extrapolation, with the second sample as its mutant.
highestOffsetSecond(producedOffsets) ==
    producedOffsets[2]

highestOffset(producedOffsets) ==
    producedOffsets[Len(producedOffsets)]

\* The lower bound of the extrapolation, with the last sample as its mutant.
lowestOffsetLast(producedOffsets) ==
    producedOffsets[Len(producedOffsets)]

lowestOffset(producedOffsets) ==
    producedOffsets[1]

\* "len(offsets) < 2", with a threshold of one sample as its mutant.
InsufficientDataBelowOne(offsets) ==
    Cardinality(DOMAIN offsets) < 1

InsufficientData(offsets) ==
    Cardinality(DOMAIN offsets) < 2

\* The locals of one estimate for a timeline entry with two samples or more,
\* keys being the sampled offsets in the order the range over the map gave them.
Estimate(keys, offsets, c, now) ==
    LET producedOffsets == SortSlice(keys)
        extra == UsesExtrapolation(producedOffsets, c)
        upper == IF extra
                 THEN highestOffset(producedOffsets)
                 ELSE getNextHigherOffset(producedOffsets, c)
        lower == IF extra
                 THEN lowestOffset(producedOffsets)
                 ELSE getNextLowerOffset(producedOffsets, c)
    IN  [method |-> IF extra THEN "extrapolation" ELSE "interpolation",
         c |-> c, upper |-> upper, lower |-> lower, now |-> now,
         lagMillis |-> LagMillis(offsets, upper, lower, c, now)]

LagLabels(key) ==
    <<key[1], key[2], FormatInt(key[3])>>

\* The value sent as topicPartitionLagMillis, with clamping at zero as its mutant.
LagValueClamped(lagMillis) ==
    IF lagMillis[1] < 0 THEN Float(0) ELSE lagMillis

LagValue(lagMillis) ==
    lagMillis

\* The two metrics of an estimate, in the order they are sent.
LagMetrics(key, est) ==
    << <<IF est.method = "extrapolation"
         THEN "kafka_consumer_lag_extrapolation"
         ELSE "kafka_consumer_lag_interpolation", LagLabels(key), Float(1)>>,
       <<"kafka_consumer_lag_millis", LagLabels(key), LagValue(est.lagMillis)>> >>

\* NewClusterAdminFromClient fails or returns nil: metricsForLag returns.
LagAdminError ==
    /\ lpc = "idle"
    /\ lpc' = "done"
    /\ UNCHANGED <<cfgVars, poolVars, coalVars, taskVars, pipeVars, scrapeVars>>
    /\ UNCHANGED <<iMap, iMu, ltopics, lcur, lresp, lparts, llocals, lout>>

\* The admin client is there: lock the table and range over it.
LagStart ==
    /\ lpc = "idle"
    /\ iMu = FALSE
    /\ iMu' = TRUE
    /\ ltopics' = {<<key[1], key[2]>> : key \in DOMAIN iMap}
    /\ lpc' = "topics"
    /\ UNCHANGED <<cfgVars, poolVars, coalVars, taskVars, pipeVars, scrapeVars>>
    /\ UNCHANGED <<iMap, lcur, lresp, lparts, llocals, lout>>

PartitionsOf(gt) ==
    {key[3] : key \in {k \in DOMAIN iMap : k[1] = gt[1] /\ k[2] = gt[2]}}

\* ListConsumerGroupOffsets returns nil: the (group, topic) pair is skipped.
LagTopicNil(gt) ==
    /\ lpc = "topics"
    /\ gt \in ltopics
    /\ ltopics' = ltopics \ {gt}
    /\ UNCHANGED <<cfgVars, poolVars, coalVars, taskVars, pipeVars, scrapeVars>>
    /\ UNCHANGED <<iMap, iMu, lpc, lcur, lresp, lparts, llocals, lout>>

\* ListConsumerGroupOffsets returns blocks for some of the partitions asked.
LagTopic(gt) ==
    /\ lpc = "topics"
    /\ gt \in ltopics
    /\ \E S \in SUBSET PartitionsOf(gt) :
          \E blocks \in [S -> CommittedOffsets] : lresp' = blocks
    /\ ltopics' = ltopics \ {gt}
    /\ lcur' = gt
    /\ lparts' = PartitionsOf(gt)
    /\ lpc' = "partitions"
    /\ UNCHANGED <<cfgVars, poolVars, coalVars, taskVars, pipeVars, scrapeVars>>
    /\ UNCHANGED <<iMap, iMu, llocals, lout>>

CurKey(p) ==
    <<lcur[1], lcur[2], p>>

\* "if len(offsets) < 2 { continue }"
LagSkipInsufficient(p) ==
    /\ lpc = "partitions"
    /\ p \in lparts
    /\ InsufficientData(iMap[CurKey(p)])
    /\ lparts' = lparts \ {p}
    /\ UNCHANGED <<cfgVars, poolVars, coalVars, taskVars, pipeVars, scrapeVars>>
    /\ UNCHANGED <<iMap, iMu, lpc, ltopics, lcur, lresp, llocals, lout>>

\* response.Blocks[topic][partition] is missing: nothing is sent.
LagSkipNoBlock(p) ==
    /\ lpc = "partitions"
    /\ p \in lparts
    /\ ~InsufficientData(iMap[CurKey(p)])
    /\ p \notin DOMAIN lresp
    /\ lparts' = lparts \ {p}
    /\ UNCHANGED <<cfgVars, poolVars, coalVars, taskVars, pipeVars, scrapeVars>>
    /\ UNCHANGED <<iMap, iMu, lpc, ltopics, lcur, lresp, llocals, lout>>

\* time.Now() is not before the instants the table holds.
NowAfterSamples(now) ==
    \A key \in DOMAIN iMap : \A o \in DOMAIN iMap[key] : iMap[key][o] <= now

\* One estimate: its locals, and its two metrics sent on ch.
LagEstimate(p, method) ==
    /\ lpc = "partitions"
    /\ p \in lparts
    /\ ~InsufficientData(iMap[CurKey(p)])
    /\ p \in DOMAIN lresp
    /\ \E now \in NowValues :
          /\ NowAfterSamples(now)
          /\ \E keys \in RangeOrders(DOMAIN iMap[CurKey(p)]) :
                LET est == Estimate(keys, iMap[CurKey(p)], lresp[p], now)
                IN  /\ est.method = method
                    /\ llocals' = [est EXCEPT !.method = method] @@ [key |-> CurKey(p)]
                    /\ lout' = lout \o LagMetrics(CurKey(p), est)
    /\ lparts' = lparts \ {p}
    /\ UNCHANGED <<cfgVars, poolVars, coalVars, taskVars, pipeVars, scrapeVars>>
    /\ UNCHANGED <<iMap, iMu, lpc, ltopics, lcur, lresp>>

\* The committed offset is below every sample.
LagExtrapolate(p) ==
    LagEstimate(p, "extrapolation")

\* The committed offset is at or above the first sample.
LagInterpolate(p) ==
    LagEstimate(p, "interpolation")

\* The partitions of the pair are done.
LagTopicDone ==
    /\ lpc = "partitions"
    /\ lparts = {}
    /\ lpc' = "topics"
    /\ lcur' = <<>>
    /\ lresp' = <<>>
    /\ UNCHANGED <<cfgVars, poolVars, coalVars, taskVars, pipeVars, scrapeVars>>
    /\ UNCHANGED <<iMap, iMu, ltopics, lparts, llocals, lout>>

\* The table is done: unlock and return.
LagDone ==
    /\ lpc = "topics"
    /\ ltopics = {}
    /\ iMu' = FALSE
    /\ lpc' = "done"
    /\ UNCHANGED <<cfgVars, poolVars, coalVars, taskVars, pipeVars, scrapeVars>>
    /\ UNCHANGED <<iMap, ltopics, lcur, lresp, lparts, llocals, lout>>

\* The table holds any timelines; the lag pass is about to run.
InitLag ==
    /\ topicWorkers = MaxTopicWorkers
    /\ CoalescerAtRest
    /\ PoolAtRest
    /\ ScrapeAtRest
    /\ TimelineAtRest
    /\ \E f \in [LagKeys -> Timelines \cup {<<>>}] :
          iMap = [key \in {k \in LagKeys : f[k] # <<>>} |-> f[key]]
    /\ iMu = FALSE
    /\ lpc = "idle"
    /\ ltopics = {}
    /\ lcur = <<>>
    /\ lresp = <<>>
    /\ lparts = {}
    /\ llocals = <<>>
    /\ lout = <<>>

NextLag ==
    \/ LagAdminError
    \/ LagStart
    \/ \E gt \in LagGroups \X LagTopics : LagTopicNil(gt) \/ LagTopic(gt)
    \/ \E p \in LagPartitions :
          \/ LagSkipInsufficient(p)
          \/ LagSkipNoBlock(p)
          \/ LagExtrapolate(p)
          \/ LagInterpolate(p)
    \/ LagTopicDone
    \/ LagDone

SpecLag ==
    InitLag /\ [][NextLag]_vars

\* --------------------------------------------- Exporter.collect in full

\* prometheus.MustNewConstMetric(desc, valueType, float64(v), labels...)
Metric(name, labels, v) ==
    <<name, labels, Float(v)>>

\* The metric, if the condition holds.
SendIf(cond, m) ==
    IF cond THEN <<m>> ELSE <<>>

\* The cluster: the partitions of a topic, and what its RPCs answer when
\* they do not fail.
TopicPartitions(T) ==
    IF T = "t" THEN <<0, 1>> ELSE <<0>>

AllPartitions ==
    {<<"t", 0>>, <<"t", 1>>, <<"x", 0>>}

Leader(T, p) ==
    IF T = "t" /\ p = 1 THEN 2 ELSE 1

Replicas(T, p) ==
    <<1, 2>>

InSyncReplicas(T, p) ==
    IF T = "t" /\ p = 1 THEN <<1>> ELSE <<1, 2>>

NewestOffset(T, p) ==
    IF T = "t" /\ p = 1 THEN 200 ELSE 100

OldestOffset(T, p) ==
    IF T = "t" /\ p = 1 THEN 10 ELSE 0

\* The offset the Zookeeper group "z" has for a partition; 0 is "none".
ZooKeeperOffset(T, p) ==
    IF T = "t" /\ p = 0 THEN 30 ELSE 0

Fails(rpc) ==
    rpc \in faults

\* "e.topicFilter.MatchString(topic) && !e.topicExclude.MatchString(topic)"
TopicAccepted(T) ==
    T \in topicFilter /\ T \notin topicExclude

\* The body of the loop over the partitions in getTopicMetrics: the metrics
\* sent for one partition, in order.  A failed RPC leaves its result nil
\* (GetOffset: -1) and the code goes on.
PartitionMetrics(T, p) ==
    LET lbl == <<T, FormatInt(p)>>
        leaderOk == ~Fails(<<"Leader", T, p>>)
        newestOk == ~Fails(<<"Newest", T, p>>)
        oldestOk == ~Fails(<<"Oldest", T, p>>)
        replicasOk == ~Fails(<<"Replicas", T, p>>)
        isrOk == ~Fails(<<"InSyncReplicas", T, p>>)
        currentOffset == IF newestOk THEN NewestOffset(T, p) ELSE -1
        preferred == /\ leaderOk
                     /\ replicasOk
                     /\ Len(Replicas(T, p)) > 0
                     /\ Leader(T, p) = Replicas(T, p)[1]
        under == /\ replicasOk
                 /\ isrOk
                 /\ Len(InSyncReplicas(T, p)) < Len(Replicas(T, p))
        zkGroups == IF useZooKeeperLag /\ ~Fails(<<"Consumergroups">>) THEN <<"z">> ELSE <<>>
    IN  SendIf(leaderOk, Metric("kafka_topic_partition_leader", lbl, Leader(T, p)))
        \o SendIf(newestOk, Metric("kafka_topic_partition_current_offset", lbl, currentOffset))
        \o SendIf(oldestOk, Metric("kafka_topic_partition_oldest_offset", lbl, OldestOffset(T, p)))
        \o SendIf(replicasOk, Metric("kafka_topic_partition_replicas", lbl, Len(Replicas(T, p))))
        \o SendIf(isrOk, Metric("kafka_topic_partition_in_sync_replica", lbl, Len(InSyncReplicas(T, p))))
        \o <<Metric("kafka_topic_partition_leader_is_preferred", lbl, IF preferred THEN 1 ELSE 0)>>
        \o <<Metric("kafka_topic_partition_under_replicated_partition", lbl, IF under THEN 1 ELSE 0)>>
        \o SendIf(zkGroups # <<>> /\ ZooKeeperOffset(T, p) > 0,
                  Metric("kafka_consumergroupzookeeper_lag_zookeeper", <<"z", T, FormatInt(p)>>,
                         currentOffset - ZooKeeperOffset(T, p)))

RECURSIVE PartitionsMetrics(_, _)
PartitionsMetrics(T, ps) ==
    IF ps = <<>>
    THEN <<>>
    ELSE PartitionMetrics(T, Head(ps)) \o PartitionsMetrics(T, Tail(ps))

\* getTopicMetrics(topic): whether it got past the filter and the partition
\* listing, the metrics it sends and what it puts in offset[topic].
getTopicMetrics(T) ==
    IF ~TopicAccepted(T) \/ Fails(<<"Partitions", T>>)
    THEN [listed |-> FALSE, metrics |-> <<>>, newest |-> <<>>]
    ELSE [listed |-> TRUE,
          metrics |-> <<Metric("kafka_topic_partitions", <<T>>, Len(TopicPartitions(T)))>>
                      \o PartitionsMetrics(T, TopicPartitions(T)),
          newest |-> [p \in {q \in 0..(Len(TopicPartitions(T)) - 1) :
                                ~Fails(<<"Newest", T, q>>)} |-> NewestOffset(T, p)]]

\* The client's metadata changes: a broker leaves.
BrokersChange ==
    /\ Fails(<<"Brokers">>)
    /\ spc \notin {"none", "done"}
    /\ clientBrokers = ClusterBrokers
    /\ clientBrokers' = {1}
    /\ UNCHANGED <<cfgVars, poolVars, coalVars, taskVars, pipeVars, lagVars, scfgVars, senvVars, refreshVars, tlVars>>
    /\ UNCHANGED <<spc, sidx, offset, sworker, swg, pending, updates, ran, sout>>

\* The clusterBrokers metric, from len(e.client.Brokers()).
ScrapeBrokers ==
    /\ spc = "brokers"
    /\ sout' = sout (+) SetToBag({Metric("kafka_brokers", <<>>, Cardinality(clientBrokers))})
    /\ spc' = "brokerInfo"
    /\ UNCHANGED <<cfgVars, poolVars, coalVars, taskVars, pipeVars, lagVars, scfgVars, senvVars, refreshVars, tlVars>>
    /\ UNCHANGED <<clientBrokers, sidx, offset, sworker, swg, pending, updates, ran>>

\* The loop over e.client.Brokers(), called again: one clusterBrokerInfo each.
ScrapeBrokerInfo ==
    /\ spc = "brokerInfo"
    /\ sout' = sout (+) SetToBag({Metric("kafka_broker_info", <<FormatInt(b), "addr">>, 1) :
                                     b \in clientBrokers})
    /\ spc' = "refresh"
    /\ UNCHANGED <<cfgVars, poolVars, coalVars, taskVars, pipeVars, lagVars, scfgVars, senvVars, refreshVars, tlVars>>
    /\ UNCHANGED <<clientBrokers, sidx, offset, sworker, swg, pending, updates, ran>>

\* Exporter.metadataRefreshInterval, in the unit of the instants.
MetadataRefreshInterval == 2

\* "now.After(e.nextMetadataRefresh)"
RefreshDue(now, next) ==
    now > next

\* "now := time.Now()" and the refresh of the client's metadata when it is
\* due.  RefreshMetadata succeeds or fails as `faults` says: its error is
\* logged, and collect goes on with the metadata the client has either way.
ScrapeRefresh ==
    /\ spc = "refresh"
    /\ IF RefreshDue(snow, nextMetadataRefresh)
       THEN /\ refreshed' = TRUE
            /\ nextMetadataRefresh' = snow + MetadataRefreshInterval
       ELSE UNCHANGED <<refreshed, nextMetadataRefresh>>
    /\ spc' = "topics"
    /\ UNCHANGED <<cfgVars, poolVars, coalVars, taskVars, pipeVars, lagVars, scfgVars, senvVars, snow, tlVars>>
    /\ UNCHANGED <<clientBrokers, sidx, offset, sworker, swg, pending, updates, ran, sout>>

\* e.client.Topics() fails: collect returns.
ScrapeTopicsError ==
    /\ spc = "topics"
    /\ Fails(<<"Topics">>)
    /\ spc' = "done"
    /\ UNCHANGED <<cfgVars, poolVars, coalVars, taskVars, pipeVars, lagVars, scfgVars, senvVars, refreshVars, tlVars>>
    /\ UNCHANGED <<clientBrokers, sidx, offset, sworker, swg, pending, updates, ran, sout>>

\* e.client.Topics() succeeds: N loopTopics goroutines are started.
ScrapeTopics ==
    /\ spc = "topics"
    /\ ~Fails(<<"Topics">>)
    /\ sworker' = [w \in SWorkers |->
                      IF w <= NumWorkers(Len(STopics), topicWorkers) THEN "idle" ELSE "off"]
    /\ sidx' = 1
    /\ ran' = ran \cup {"topics"}
    /\ spc' = "produce"
    /\ UNCHANGED <<cfgVars, poolVars, coalVars, taskVars, pipeVars, lagVars, scfgVars, senvVars, refreshVars, tlVars>>
    /\ UNCHANGED <<clientBrokers, offset, swg, pending, updates, sout>>

\* The producer loop meets a topic the filters reject.
ScrapeSkipTopic ==
    /\ spc = "produce"
    /\ sidx <= Len(STopics)
    /\ ~TopicAccepted(STopics[sidx])
    /\ sidx' = sidx + 1
    /\ UNCHANGED <<cfgVars, poolVars, coalVars, taskVars, pipeVars, lagVars, scfgVars, senvVars, refreshVars, tlVars>>
    /\ UNCHANGED <<clientBrokers, spc, offset, sworker, swg, pending, updates, ran, sout>>

\* The producer loop meets a topic the filters accept: wg.Add(1) and
\* "topicChannel <- topic", which completes when a worker receives.
ScrapeProduce(w) ==
    /\ spc = "produce"
    /\ sidx <= Len(STopics)
    /\ TopicAccepted(STopics[sidx])
    /\ sworker[w] = "idle"
    /\ sworker' = [sworker EXCEPT ![w] = STopics[sidx]]
    /\ swg' = swg + 1
    /\ sidx' = sidx + 1
    /\ UNCHANGED <<cfgVars, poolVars, coalVars, taskVars, pipeVars, lagVars, scfgVars, senvVars, refreshVars, tlVars>>
    /\ UNCHANGED <<clientBrokers, spc, offset, pending, updates, ran, sout>>

\* A loopTopics goroutine runs getTopicMetrics(topic) and wg.Done().
ScrapeTopicMetrics(w) ==
    /\ sworker[w] \notin {"off", "idle", "exit"}
    /\ LET T == sworker[w]
           res == getTopicMetrics(T)
       IN  /\ sout' = sout (+) BagOfSeq(res.metrics)
           /\ offset' = IF res.listed THEN (T :> res.newest) @@ offset ELSE offset
    /\ swg' = swg - 1
    /\ sworker' = [sworker EXCEPT ![w] = IF spc = "produce" THEN "idle" ELSE "exit"]
    /\ UNCHANGED <<cfgVars, poolVars, coalVars, taskVars, pipeVars, lagVars, scfgVars, senvVars, refreshVars, tlVars>>
    /\ UNCHANGED <<clientBrokers, spc, sidx, pending, updates, ran>>

\* close(topicChannel): the goroutines waiting on the channel end.
ScrapeCloseTopics ==
    /\ spc = "produce"
    /\ sidx > Len(STopics)
    /\ sworker' = [w \in SWorkers |-> IF sworker[w] = "idle" THEN "exit" ELSE sworker[w]]
    /\ spc' = "wait"
    /\ UNCHANGED <<cfgVars, poolVars, coalVars, taskVars, pipeVars, lagVars, scfgVars, senvVars, refreshVars, tlVars>>
    /\ UNCHANGED <<clientBrokers, sidx, offset, swg, pending, updates, ran, sout>>

\* wg.Wait() returns when the counter is zero; its mutant does not wait.
WaitReturnsAtOnce(n) ==
    TRUE

WaitReturns(n) ==
    n = 0

\* wg.Wait() after the topics.
ScrapeWait ==
    /\ spc = "wait"
    /\ WaitReturns(swg)
    /\ spc' = "groups"
    /\ UNCHANGED <<cfgVars, poolVars, coalVars, taskVars, pipeVars, lagVars, scfgVars, senvVars, refreshVars, tlVars>>
    /\ UNCHANGED <<clientBrokers, sidx, offset, sworker, swg, pending, updates, ran, sout>>

\* "e.groupFilter.MatchString(groupId) && !e.groupExclude.MatchString(groupId)"
GroupAccepted(g) ==
    g \in groupFilter /\ g \notin groupExclude

\* The sum of f over S.
RECURSIVE SumOver(_, _)
SumOver(S, f) ==
    IF S = {}
    THEN 0
    ELSE LET x == CHOOSE y \in S : TRUE
         IN  f[x] + SumOver(S \ {x}, f)

\* "offset, ok := offset[topic][partition]"
HasNewest(T, p) ==
    T \in DOMAIN offset /\ p \in DOMAIN offset[T]

\* The lag of a partition: -1 when there is no commit.  Its mutant
\* subtracts in every case.
consumerGroupLagAlwaysSubtracts(newest, c) ==
    newest - c

consumerGroupLag(newest, c) ==
    IF c = -1 THEN -1 ELSE newest - c

\* "if !e.topicFilter.MatchString(topic) { continue }": topicExclude is not asked.
BlockTopicAccepted(T) ==
    T \in topicFilter

\* "if offsetFetchResponseBlock.Offset != -1 { topicConsumed = true }" over
\* the blocks of the topic, with "always consumed" as its mutant.
topicConsumedAlways(g, T, parts) ==
    TRUE

topicConsumed(g, T, parts) ==
    \E p \in parts : committed[g][<<T, p>>] # -1

\* The lag a partition adds to lagSum, with the lag of a partition without
\* a commit added too as its mutant.
LagSumTermAll(newest, c) ==
    consumerGroupLag(newest, c)

LagSumTerm(newest, c) ==
    IF c = -1 THEN 0 ELSE consumerGroupLag(newest, c)

\* "if err != sarama.ErrNoError { continue }": the block is looked at, with
\* the check left out as its mutant.
BlockOkAlways(g, T, p) ==
    TRUE

BlockOk(g, T, p) ==
    ~Fails(<<"BlockErr", g, T, p>>)

\* "if offset, ok := offset[topic][partition]; ok": the lag of the block is
\* sent in the branch that calls createOrUpdate, with a lag sent in either
\* branch as its mutant.
LagEmittedAlways(ok) ==
    TRUE

LagEmitted(ok) ==
    ok

\* "currentOffsetSum += currentOffset": what a block adds to the sum, with
\* the block without a commit left out as its mutant.
OffsetSumTermCommitted(c) ==
    IF c = -1 THEN 0 ELSE c

OffsetSumTerm(c) ==
    c

\* The offset createOrUpdate is called with: the entry of the offset map,
\* with the block's offset as its mutant.
TimelineKeyCommitted(newest, c) ==
    c

TimelineKey(newest, c) ==
    newest

\* The body of the loop over offsetFetchResponse.Blocks for one topic with
\* the blocks of the partitions parts: the metrics sent and the calls of
\* createOrUpdate made.
BlockMetrics(g, T, parts) ==
    IF ~BlockTopicAccepted(T) \/ ~topicConsumed(g, T, parts)
    THEN [metrics |-> <<>>, updates |-> {}]
    ELSE LET ok == {p \in parts : BlockOk(g, T, p)}
             known == {p \in ok : HasNewest(T, p)}
             c == [p \in parts |-> committed[g][<<T, p>>]]
             lagTerm == [p \in known |-> LagSumTerm(offset[T][p], c[p])]
             perPartition ==
                 [p \in ok |->
                     <<Metric("kafka_consumergroup_current_offset", <<g, T, FormatInt(p)>>, c[p])>>
                     \o SendIf(LagEmitted(p \in known),
                               Metric("kafka_consumergroup_lag", <<g, T, FormatInt(p)>>,
                                      consumerGroupLag(IF p \in known THEN offset[T][p] ELSE 0, c[p])))]
         IN  [metrics |->
                 (IF 0 \in ok THEN perPartition[0] ELSE <<>>)
                 \o (IF 1 \in ok THEN perPartition[1] ELSE <<>>)
                 \o <<Metric("kafka_consumergroup_current_offset_sum", <<g, T>>,
                             SumOver(ok, [p \in ok |-> OffsetSumTerm(c[p])])),
                      Metric("kafka_consumergroup_lag_sum", <<g, T>>, SumOver(known, lagTerm))>>,
              updates |-> {<<g, T, p, TimelineKey(offset[T][p], c[p])>> : p \in known}]

\* The partitions of the OffsetFetch request for a group.
Requested(g) ==
    IF offsetShowAll
    THEN {tp \in AllPartitions : HasNewest(tp[1], tp[2])}
    ELSE assignment[g]

\* The body of the loop over describeGroups.Groups for one group; abort is
\* the "return" on a member assignment that cannot be decoded.
GroupMetrics(g) ==
    IF ~offsetShowAll /\ Fails(<<"Assignment", g>>)
    THEN [abort |-> TRUE, metrics |-> <<>>, updates |-> {}]
    ELSE IF Fails(<<"FetchOffset", g>>)
    THEN [abort |-> FALSE,
          metrics |-> <<Metric("kafka_consumergroup_members", <<g>>, 1)>>,
          updates |-> {}]
    ELSE LET parts(T) == {tp[2] : tp \in {q \in Requested(g) : q[1] = T}}
             block(T) == IF parts(T) = {}
                         THEN [metrics |-> <<>>, updates |-> {}]
                         ELSE BlockMetrics(g, T, parts(T))
         IN  [abort |-> FALSE,
              metrics |-> <<Metric("kafka_consumergroup_members", <<g>>, 1)>>
                          \o block("t").metrics \o block("x").metrics,
              updates |-> block("t").updates \cup block("x").updates]

RECURSIVE GroupsLoop(_)
GroupsLoop(gs) ==
    IF gs = <<>>
    THEN [metrics |-> <<>>, updates |-> {}]
    ELSE LET first == GroupMetrics(Head(gs))
             rest == GroupsLoop(Tail(gs))
         IN  IF first.abort
             THEN [metrics |-> first.metrics, updates |-> first.updates]
             ELSE [metrics |-> first.metrics \o rest.metrics,
                   updates |-> first.updates \cup rest.updates]

\* getConsumerGroupMetrics(broker), the groups of describeGroups in the
\* order gs.
getConsumerGroupMetrics(b, gs) ==
    IF \/ Fails(<<"Open", b>>)
       \/ Fails(<<"ListGroups", b>>)
       \/ Fails(<<"DescribeGroups", b>>)
    THEN [metrics |-> <<>>, updates |-> {}]
    ELSE GroupsLoop(gs)

\* "wg.Add(1)" for each broker of the fan-out, with the Add left out as its
\* mutant.
FanOutAddNone(brokers) ==
    0

FanOutAdd(brokers) ==
    Cardinality(brokers)

\* "if len(e.client.Brokers()) > 0": one goroutine for each broker.
ScrapeFanOut ==
    /\ spc = "groups"
    /\ ran' = ran \cup {"groups"}
    /\ pending' = clientBrokers
    /\ swg' = swg + FanOutAdd(clientBrokers)
    /\ spc' = "groupsWait"
    /\ UNCHANGED <<cfgVars, poolVars, coalVars, taskVars, pipeVars, lagVars, scfgVars, senvVars, refreshVars, tlVars>>
    /\ UNCHANGED <<clientBrokers, sidx, offset, sworker, updates, sout>>

\* A getConsumerGroupMetrics goroutine runs and calls wg.Done().
ScrapeConsumerGroupMetrics(b) ==
    /\ b \in pending
    /\ \E gs \in RangeOrders({g \in SGroups : coordinator[g] = b /\ GroupAccepted(g)}) :
          LET res == getConsumerGroupMetrics(b, gs)
          IN  /\ sout' = sout (+) BagOfSeq(res.metrics)
              /\ updates' = updates \cup res.updates
    /\ pending' = pending \ {b}
    /\ swg' = swg - 1
    /\ UNCHANGED <<cfgVars, poolVars, coalVars, taskVars, pipeVars, lagVars, scfgVars, senvVars, refreshVars, tlVars>>
    /\ UNCHANGED <<clientBrokers, spc, sidx, offset, sworker, ran>>

\* wg.Wait() after the fan-out.
ScrapeGroupsWait ==
    /\ spc = "groupsWait"
    /\ WaitReturns(swg)
    /\ spc' = "lag"
    /\ UNCHANGED <<cfgVars, poolVars, coalVars, taskVars, pipeVars, lagVars, scfgVars, senvVars, refreshVars, tlVars>>
    /\ UNCHANGED <<clientBrokers, sidx, offset, sworker, swg, pending, updates, ran, sout>>

\* The goroutine of metricsForLag(ch) and the last wg.Wait().  SpecLag has
\* the pass itself; on a fresh exporter the table holds one sample for a key
\* at most, for which the pass sends nothing.
ScrapeLag ==
    /\ spc = "lag"
    /\ ran' = ran \cup {"lag"}
    /\ spc' = "done"
    /\ UNCHANGED <<cfgVars, poolVars, coalVars, taskVars, pipeVars, lagVars, scfgVars, senvVars, refreshVars, tlVars>>
    /\ UNCHANGED <<clientBrokers, sidx, offset, sworker, swg, pending, updates, sout>>

\* The faults of the RPCs of partition (t, 0), any of which may fail together.
PartitionFaults ==
    {<<"Leader", "t", 0>>, <<"Newest", "t", 0>>, <<"Oldest", "t", 0>>,
     <<"Replicas", "t", 0>>, <<"InSyncReplicas", "t", 0>>}

\* The faults taken one at a time.
SingleFaults ==
    {<<"Topics">>, <<"Brokers">>, <<"Partitions", "t">>, <<"Partitions", "x">>,
     <<"Newest", "t", 0>>, <<"Newest", "t", 1>>, <<"Newest", "x", 0>>,
     <<"Open", 1>>, <<"ListGroups", 1>>, <<"DescribeGroups", 2>>,
     <<"FetchOffset", "g">>, <<"Assignment", "g">>,
     <<"BlockErr", "g", "t", 0>>, <<"BlockErr", "g", "t", 1>>}

DefaultCommitted ==
    [g \in SGroups |-> [tp \in AllPartitions |-> 40]]

DefaultAssignment ==
    [g \in SGroups |-> IF g = "g" THEN AllPartitions ELSE {<<"t", 0>>}]

DefaultCoordinator ==
    [g \in SGroups |-> IF g = "g" THEN 1 ELSE 2]

\* A scrape that looks at the RPCs of one partition and at Zookeeper.
InitTopicFaults ==
    /\ topicFilter = {"t", "x"}
    /\ topicExclude = {}
    /\ groupFilter = SGroups
    /\ groupExclude = {}
    /\ offsetShowAll = TRUE
    /\ useZooKeeperLag \in BOOLEAN
    /\ \E fs \in SUBSET PartitionFaults :
          faults \in {fs} \cup (IF useZooKeeperLag THEN {fs \cup {<<"Consumergroups">>}} ELSE {})
    /\ committed = DefaultCommitted
    /\ assignment = DefaultAssignment
    /\ coordinator = DefaultCoordinator

\* A scrape that looks at the committed offsets of group g and at the
\* topic filters.
InitGroupOffsets ==
    /\ topicFilter \in {{"t", "x"}, {"t"}}
    /\ topicExclude \in {{}, {"x"}}
    /\ groupFilter = SGroups
    /\ groupExclude = {}
    /\ offsetShowAll \in BOOLEAN
    /\ useZooKeeperLag = FALSE
    /\ faults \in {{}} \cup {{f} : f \in SingleFaults}
    /\ \E cg \in [AllPartitions -> {-1, 40}] :
          committed = [DefaultCommitted EXCEPT !["g"] = cg]
    /\ \E ag \in {AllPartitions, {<<"t", 0>>}, {<<"t", 1>>, <<"x", 0>>}} :
          assignment = [DefaultAssignment EXCEPT !["g"] = ag]
    /\ coordinator = DefaultCoordinator

\* A scrape that looks at the group filters and at the brokers' groups.
InitGroupFilters ==
    /\ topicFilter = {"t", "x"}
    /\ topicExclude = {}
    /\ \E gf \in {<<SGroups, {"h"}>>, <<{"g"}, {}>>, <<SGroups, {}>>} :
          groupFilter = gf[1] /\ groupExclude = gf[2]
    /\ offsetShowAll \in BOOLEAN
    /\ useZooKeeperLag = FALSE
    /\ faults \in {{}} \cup {{f} : f \in SingleFaults}
    /\ committed = DefaultCommitted
    /\ assignment = DefaultAssignment
    /\ coordinator \in {DefaultCoordinator, [g \in SGroups |-> 1]}

\* The instants nextMetadataRefresh holds and time.Now() answers: before,
\* at and after the refresh that is due next.
Instants == 1..3

\* A scrape that looks at the metadata refresh: a fresh exporter holds the
\* instant of its construction, a later scrape finds the instant the
\* refresh before it has set.
InitRefresh ==
    /\ topicFilter = {"t", "x"}
    /\ topicExclude = {}
    /\ groupFilter = SGroups
    /\ groupExclude = {}
    /\ offsetShowAll = TRUE
    /\ useZooKeeperLag = FALSE
    /\ faults \in {{}, {<<"RefreshMetadata">>}, {<<"RefreshMetadata">>, <<"Partitions", "x">>}}
    /\ committed = DefaultCommitted
    /\ assignment = DefaultAssignment
    /\ coordinator = DefaultCoordinator
    /\ nextMetadataRefresh \in Instants
    /\ snow \in Instants

\* The first scrape of an exporter: time.Now() is after the instant the
\* constructor has stored.
FirstScrape ==
    /\ nextMetadataRefresh = 1
    /\ snow = 2

\* collect is entered.
InitScrape ==
    /\ topicWorkers = MaxTopicWorkers
    /\ CoalescerAtRest
    /\ PoolAtRest
    /\ LagAtRest
    /\ TimelineAtRest
    /\ \/ (InitTopicFaults \/ InitGroupOffsets \/ InitGroupFilters) /\ FirstScrape
       \/ InitRefresh
    /\ refreshed = FALSE
    /\ clientBrokers = ClusterBrokers
    /\ spc = "brokers"
    /\ sidx = 1
    /\ offset = <<>>
    /\ sworker = [w \in SWorkers |-> "off"]
    /\ swg = 0
    /\ pending = {}
    /\ updates = {}
    /\ ran = {}
    /\ sout = EmptyBag

NextScrape ==
    \/ BrokersChange
    \/ ScrapeBrokers
    \/ ScrapeBrokerInfo
    \/ ScrapeRefresh
    \/ ScrapeTopicsError
    \/ ScrapeTopics
    \/ ScrapeSkipTopic
    \/ \E w \in SWorkers : ScrapeProduce(w) \/ ScrapeTopicMetrics(w)
    \/ ScrapeCloseTopics
    \/ ScrapeWait
    \/ ScrapeFanOut
    \/ \E b \in ClusterBrokers : ScrapeConsumerGroupMetrics(b)
    \/ ScrapeGroupsWait
    \/ ScrapeLag

SpecScrape ==
    InitScrape /\ [][NextScrape]_vars

\* ------------------------- the timeline, its writers and its readers

\* Options.MaxOffsets: the samples Prune leaves in a timeline entry.
MaxOffsets == 2

\* The partitions of topic t whose blocks the group worker of a scrape
\* handles for group g.
TPartitions == {0}

TKey(p) ==
    <<"g", "t", p>>

\* The newest offset of a partition after n messages.
TNewest(n) ==
    100 + n

\* interpolationMap.createOrUpdate(group, topic, partition, offset): the
\* entry of the key gets offset -> now, a sample of that offset being
\* overwritten; a missing entry is made.
createOrUpdate(m, key, o, now) ==
    IF key \in DOMAIN m
    THEN [m EXCEPT ![key] = (o :> now) @@ @]
    ELSE (key :> (o :> now)) @@ m

\* The n largest elements of a set of offsets.
RECURSIVE Largest(_, _)
Largest(S, n) ==
    IF n <= 0 \/ S = {}
    THEN {}
    ELSE LET x == CHOOSE y \in S : \A z \in S : z <= y
         IN  {x} \cup Largest(S \ {x}, n - 1)

\* interpolationMap.Prune(logger, client, maxOffsets) on a cluster that still
\* has every key of the table: each entry keeps its maxOffsets largest offsets.
Prune(m, maxOffsets) ==
    [key \in DOMAIN m |->
        [o \in Largest(DOMAIN m[key], maxOffsets) |-> m[key][o]]]

\* "e.consumerGroupLagTable.Prune(e.logger, client, e.kafkaOpts.MaxOffsets)":
\* the limit RunPruner passes, with one more as its mutant.
PruneArgPlusOne(maxOffsets) ==
    maxOffsets + 1

PruneArg(maxOffsets) ==
    maxOffsets

\* "e.consumerGroupLagTable.mu.Lock()" in metricsForLag returns when the
\* mutex is free; its mutant does not take the mutex.
LagMayLockAlways(locked) ==
    TRUE

LagMayLock(locked) ==
    ~locked

\* collect is entered and runs up to its consumer-group fan-out: its topic
\* workers read the newest offsets, which the producers may have moved since
\* the last scrape.  In serialized mode a scrape runs after the one before.
TScrapeStart(s) ==
    /\ s = started + 1
    /\ s <= MaxScrapes
    /\ allowConcurrent \/ \A r \in Scrapes : tscr[r] \in {"idle", "done"}
    /\ started' = s
    /\ \E n \in {produced, produced + 1} :
          /\ produced' = n
          /\ toff' = [toff EXCEPT ![s] = TNewest(n)]
    /\ tpend' = [tpend EXCEPT ![s] = TPartitions]
    /\ tscr' = [tscr EXCEPT ![s] = "groups"]
    /\ UNCHANGED <<cfgVars, poolVars, coalVars, taskVars, pipeVars, lagVars>>
    /\ UNCHANGED <<scfgVars, senvVars, srunVars, refreshVars>>
    /\ UNCHANGED <<allowConcurrent, mu, tcur, prunerPc, tickFailed, quit>>

\* "e.mu.Lock()" for a partition block of the response.
TMuLock(s, p) ==
    /\ tscr[s] = "groups"
    /\ p \in tpend[s]
    /\ mu = 0
    /\ mu' = s
    /\ tcur' = [tcur EXCEPT ![s] = p]
    /\ tscr' = [tscr EXCEPT ![s] = "mu"]
    /\ UNCHANGED <<cfgVars, poolVars, coalVars, taskVars, pipeVars, lagVars>>
    /\ UNCHANGED <<scfgVars, senvVars, srunVars, refreshVars>>
    /\ UNCHANGED <<allowConcurrent, started, produced, toff, tpend, prunerPc, tickFailed, quit>>

\* createOrUpdate takes the mutex of the table.
TCreateLock(s) ==
    /\ tscr[s] = "mu"
    /\ ~iMu
    /\ iMu' = TRUE
    /\ tscr' = [tscr EXCEPT ![s] = "table"]
    /\ UNCHANGED <<cfgVars, poolVars, coalVars, taskVars, pipeVars>>
    /\ UNCHANGED <<iMap, lpc, ltopics, lcur, lresp, lparts, llocals, lout>>
    /\ UNCHANGED <<scfgVars, senvVars, srunVars, refreshVars>>
    /\ UNCHANGED <<allowConcurrent, mu, started, produced, toff, tpend, tcur, prunerPc, tickFailed, quit>>

\* createOrUpdate stores the sample and releases the mutex of the table; the
\* lag of the block is sent and "e.mu.Unlock()" ends the block.  time.Now()
\* is counted in scrapes entered.
TCreateDone(s) ==
    /\ tscr[s] = "table"
    /\ iMap' = createOrUpdate(iMap, TKey(tcur[s]), toff[s], started)
    /\ iMu' = FALSE
    /\ mu' = 0
    /\ tpend' = [tpend EXCEPT ![s] = @ \ {tcur[s]}]
    /\ tcur' = [tcur EXCEPT ![s] = 0]
    /\ tscr' = [tscr EXCEPT ![s] = "groups"]
    /\ UNCHANGED <<cfgVars, poolVars, coalVars, taskVars, pipeVars>>
    /\ UNCHANGED <<lpc, ltopics, lcur, lresp, lparts, llocals, lout>>
    /\ UNCHANGED <<scfgVars, senvVars, srunVars, refreshVars>>
    /\ UNCHANGED <<allowConcurrent, started, produced, toff, prunerPc, tickFailed, quit>>

\* The group worker has ended: wg.Wait() returns and the goroutine of
\* metricsForLag is started.
TGroupsWait(s) ==
    /\ tscr[s] = "groups"
    /\ tpend[s] = {}
    /\ tscr' = [tscr EXCEPT ![s] = "lag"]
    /\ UNCHANGED <<cfgVars, poolVars, coalVars, taskVars, pipeVars, lagVars>>
    /\ UNCHANGED <<scfgVars, senvVars, srunVars, refreshVars>>
    /\ UNCHANGED <<allowConcurrent, mu, started, produced, toff, tpend, tcur, prunerPc, tickFailed, quit>>

\* metricsForLag cannot make its cluster admin: it returns.
TLagAdminError(s) ==
    /\ tscr[s] = "lag"
    /\ tscr' = [tscr EXCEPT ![s] = "done"]
    /\ UNCHANGED <<cfgVars, poolVars, coalVars, taskVars, pipeVars, lagVars>>
    /\ UNCHANGED <<scfgVars, senvVars, srunVars, refreshVars>>
    /\ UNCHANGED <<allowConcurrent, mu, started, produced, toff, tpend, tcur, prunerPc, tickFailed, quit>>

\* metricsForLag locks the table and starts to range over it.
TLagLock(s) ==
    /\ tscr[s] = "lag"
    /\ LagMayLock(iMu)
    /\ iMu' = TRUE
    /\ tscr' = [tscr EXCEPT ![s] = "iterating"]
    /\ UNCHANGED <<cfgVars, poolVars, coalVars, taskVars, pipeVars>>
    /\ UNCHANGED <<iMap, lpc, ltopics, lcur, lresp, lparts, llocals, lout>>
    /\ UNCHANGED <<scfgVars, senvVars, srunVars, refreshVars>>
    /\ UNCHANGED <<allowConcurrent, mu, started, produced, toff, tpend, tcur, prunerPc, tickFailed, quit>>

\* metricsForLag has ranged over the table: it unlocks it and collect returns.
TLagUnlock(s) ==
    /\ tscr[s] = "iterating"
    /\ iMu' = FALSE
    /\ tscr' = [tscr EXCEPT ![s] = "done"]
    /\ UNCHANGED <<cfgVars, poolVars, coalVars, taskVars, pipeVars>>
    /\ UNCHANGED <<iMap, lpc, ltopics, lcur, lresp, lparts, llocals, lout>>
    /\ UNCHANGED <<scfgVars, senvVars, srunVars, refreshVars>>
    /\ UNCHANGED <<allowConcurrent, mu, started, produced, toff, tpend, tcur, prunerPc, tickFailed, quit>>

\* A tick of RunPruner whose sarama.NewClient fails: the error is logged and
\* RunPruner returns.
PrunerClientError ==
    /\ prunerPc = "ticking"
    /\ tickFailed' = TRUE
    /\ prunerPc' = "stopped"
    /\ UNCHANGED <<cfgVars, poolVars, coalVars, taskVars, pipeVars, lagVars>>
    /\ UNCHANGED <<scfgVars, senvVars, srunVars, refreshVars>>
    /\ UNCHANGED <<allowConcurrent, mu, started, produced, tscr, toff, tpend, tcur, quit>>

\* A tick of RunPruner whose client is made: Prune is called and takes the
\* mutex of the table.
PrunerTick ==
    /\ prunerPc = "ticking"
    /\ ~iMu
    /\ iMu' = TRUE
    /\ prunerPc' = "pruning"
    /\ UNCHANGED <<cfgVars, poolVars, coalVars, taskVars, pipeVars>>
    /\ UNCHANGED <<iMap, lpc, ltopics, lcur, lresp, lparts, llocals, lout>>
    /\ UNCHANGED <<scfgVars, senvVars, srunVars, refreshVars>>
    /\ UNCHANGED <<allowConcurrent, mu, started, produced, tscr, toff, tpend, tcur, tickFailed, quit>>

\* Prune trims the table and releases its mutex; "client.Close()" ends the tick.
PruneDone ==
    /\ prunerPc = "pruning"
    /\ iMap' = Prune(iMap, PruneArg(MaxOffsets))
    /\ iMu' = FALSE
    /\ prunerPc' = "ticking"
    /\ UNCHANGED <<cfgVars, poolVars, coalVars, taskVars, pipeVars>>
    /\ UNCHANGED <<lpc, ltopics, lcur, lresp, lparts, llocals, lout>>
    /\ UNCHANGED <<scfgVars, senvVars, srunVars, refreshVars>>
    /\ UNCHANGED <<allowConcurrent, mu, started, produced, tscr, toff, tpend, tcur, tickFailed, quit>>

\* "case <-quit": the ticker is stopped and RunPruner returns.
PrunerQuit ==
    /\ prunerPc = "ticking"
    /\ quit' = TRUE
    /\ prunerPc' = "stopped"
    /\ UNCHANGED <<cfgVars, poolVars, coalVars, taskVars, pipeVars, lagVars>>
    /\ UNCHANGED <<scfgVars, senvVars, srunVars, refreshVars>>
    /\ UNCHANGED <<allowConcurrent, mu, started, produced, tscr, toff, tpend, tcur, tickFailed>>

\* A fresh exporter in either mode, its pruner started.
InitTimeline ==
    /\ topicWorkers = MaxTopicWorkers
    /\ CoalescerAtRest
    /\ PoolAtRest
    /\ LagAtRest
    /\ ScrapeAtRest
    /\ allowConcurrent \in BOOLEAN
    /\ mu = 0
    /\ started = 0
    /\ produced = 0
    /\ tscr = [s \in Scrapes |-> "idle"]
    /\ toff = [s \in Scrapes |-> 0]
    /\ tpend = [s \in Scrapes |-> {}]
    /\ tcur = [s \in Scrapes |-> 0]
    /\ prunerPc = "ticking"
    /\ tickFailed = FALSE
    /\ quit = FALSE

NextTimeline ==
    \/ \E s \in Scrapes :
          \/ TScrapeStart(s)
          \/ \E p \in TPartitions : TMuLock(s, p)
          \/ TCreateLock(s)
          \/ TCreateDone(s)
          \/ TGroupsWait(s)
          \/ TLagAdminError(s)
          \/ TLagLock(s)
          \/ TLagUnlock(s)
    \/ PrunerClientError
    \/ PrunerTick
    \/ PruneDone
    \/ PrunerQuit

SpecTimeline ==
    InitTimeline /\ [][NextTimeline]_vars

\* ------------------------------------------------- the topic worker pool

\* What a send on an unbuffered channel does with the goroutines blocked in
\* a receive: one of them gets the value.
ChannelBroadcasts(receivers) ==
    IF receivers = {} THEN {} ELSE {receivers}

ChannelDelivers(receivers) ==
    {{w} : w \in receivers}

\* The loopTopics goroutines blocked in "<-topicChannel".
Receiving ==
    {w \in PoolWorkers : loopTopics[w] = "recv"}

\* The loopTopics goroutines inside getTopicMetrics.
Handling ==
    {w \in PoolWorkers : loopTopics[w] \notin {"off", "recv", "exit"}}

\* "for w := 1; w <= N; w++ { go loopTopics() }"
StartWorkers(n) ==
    [w \in PoolWorkers |-> IF w <= n THEN "recv" ELSE "off"]

\* The N workers are started, before the producer loop.
PoolStart ==
    /\ poolPc = "start"
    /\ loopTopics' = StartWorkers(NumWorkers(Len(poolTopics), topicWorkers))
    /\ poolPc' = "produce"
    /\ UNCHANGED <<cfgVars, coalVars, taskVars, pipeVars, lagVars, scrapeVars>>
    /\ UNCHANGED <<poolTopics, poolIdx, poolWg, topicChannel, deferred, handled, poolOut>>

\* The producer loop meets a topic the filters reject.
PoolSkipTopic ==
    /\ poolPc = "produce"
    /\ poolIdx <= Len(poolTopics)
    /\ ~TopicAccepted(poolTopics[poolIdx])
    /\ poolIdx' = poolIdx + 1
    /\ UNCHANGED <<cfgVars, coalVars, taskVars, pipeVars, lagVars, scrapeVars>>
    /\ UNCHANGED <<poolTopics, poolPc, poolWg, topicChannel, loopTopics, deferred, handled, poolOut>>

\* The producer loop meets a topic the filters accept: wg.Add(1) and
\* "topicChannel <- topic", which completes when a worker receives.
PoolProduce ==
    /\ poolPc = "produce"
    /\ poolIdx <= Len(poolTopics)
    /\ TopicAccepted(poolTopics[poolIdx])
    /\ \E ws \in ChannelDelivers(Receiving) :
          loopTopics' = [w \in PoolWorkers |->
                            IF w \in ws THEN poolTopics[poolIdx] ELSE loopTopics[w]]
    /\ poolWg' = poolWg + 1
    /\ poolIdx' = poolIdx + 1
    /\ UNCHANGED <<cfgVars, coalVars, taskVars, pipeVars, lagVars, scrapeVars>>
    /\ UNCHANGED <<poolTopics, poolPc, topicChannel, deferred, handled, poolOut>>

\* getTopicMetrics(topic) on a worker, with its deferred wg.Done(); the
\* worker then receives again.
PoolTopicMetrics(w) ==
    /\ w \in Handling
    /\ poolOut' = poolOut (+) BagOfSeq(getTopicMetrics(loopTopics[w]).metrics)
    /\ handled' = handled (+) SetToBag({<<w, loopTopics[w]>>})
    /\ poolWg' = poolWg - 1
    /\ loopTopics' = [loopTopics EXCEPT ![w] = "recv"]
    /\ UNCHANGED <<cfgVars, coalVars, taskVars, pipeVars, lagVars, scrapeVars>>
    /\ UNCHANGED <<poolTopics, poolPc, poolIdx, topicChannel, deferred>>

\* close(topicChannel), after the producer loop.
PoolCloseTopics ==
    /\ poolPc = "produce"
    /\ poolIdx > Len(poolTopics)
    /\ topicChannel' = "closed"
    /\ poolPc' = "wait"
    /\ UNCHANGED <<cfgVars, coalVars, taskVars, pipeVars, lagVars, scrapeVars>>
    /\ UNCHANGED <<poolTopics, poolIdx, poolWg, loopTopics, deferred, handled, poolOut>>

\* A worker's receive on the closed channel: open is false, loopTopics ends.
PoolLoopEnds(w) ==
    /\ w \in Receiving
    /\ topicChannel = "closed"
    /\ loopTopics' = [loopTopics EXCEPT ![w] = "exit"]
    /\ UNCHANGED <<cfgVars, coalVars, taskVars, pipeVars, lagVars, scrapeVars>>
    /\ UNCHANGED <<poolTopics, poolPc, poolIdx, poolWg, topicChannel, deferred, handled, poolOut>>

\* wg.Wait(): the barrier before the consumer-group fan-out.
PoolWait ==
    /\ poolPc = "wait"
    /\ WaitReturns(poolWg)
    /\ poolPc' = "groups"
    /\ UNCHANGED <<cfgVars, coalVars, taskVars, pipeVars, lagVars, scrapeVars>>
    /\ UNCHANGED <<poolTopics, poolIdx, poolWg, topicChannel, loopTopics, deferred, handled, poolOut>>

\* The topic lists and the filters of the pool: e.client.Topics() has
\* answered, and nothing else of the exporter runs.
InitPoolEnv ==
    /\ topicWorkers \in 0..(MaxTopicWorkers + 1)
    /\ CoalescerAtRest
    /\ LagAtRest
    /\ TimelineAtRest
    /\ \E n \in 0..MaxPoolTopics : poolTopics = SubSeq(PoolTopicNames, 1, n)
    /\ topicFilter \in SUBSET {poolTopics[i] : i \in 1..Len(poolTopics)}
    /\ topicExclude \in {{}, {"t"}}
    /\ groupFilter = SGroups
    /\ groupExclude = {}
    /\ offsetShowAll = TRUE
    /\ useZooKeeperLag = FALSE
    /\ faults = {}
    /\ committed = <<>>
    /\ assignment = <<>>
    /\ coordinator = <<>>
    /\ clientBrokers = ClusterBrokers
    /\ spc = "none"
    /\ sidx = 1
    /\ offset = <<>>
    /\ sworker = [w \in SWorkers |-> "off"]
    /\ swg = 0
    /\ pending = {}
    /\ updates = {}
    /\ ran = {}
    /\ sout = EmptyBag
    /\ nextMetadataRefresh = 0
    /\ snow = 0
    /\ refreshed = FALSE
    /\ poolIdx = 1
    /\ poolWg = 0
    /\ topicChannel = "open"
    /\ loopTopics = [w \in PoolWorkers |-> "off"]
    /\ deferred = [w \in PoolWorkers |-> 0]
    /\ handled = EmptyBag
    /\ poolOut = EmptyBag

InitPool ==
    /\ InitPoolEnv
    /\ poolPc = "start"

NextPool ==
    \/ PoolStart
    \/ PoolSkipTopic
    \/ PoolProduce
    \/ PoolCloseTopics
    \/ PoolWait
    \/ \E w \in PoolWorkers : PoolTopicMetrics(w) \/ PoolLoopEnds(w)

SpecPool ==
    InitPool /\ [][NextPool]_vars

\* Every goroutine of the pool that can take a step does so at last.
FairPool ==
    SpecPool /\ WF_vars(NextPool)

\* ------------------------------- the topic pool of the legacy variant
\* src/unnamed/part_001: the producer loop comes before "go loopTopics()".

\* "e.topicFilter.MatchString(topic)"
LegacyAccepted(T) ==
    T \in topicFilter

\* The producer loop meets a topic the filter rejects.
LegacySkipTopic ==
    /\ poolPc = "produce"
    /\ poolIdx <= Len(poolTopics)
    /\ ~LegacyAccepted(poolTopics[poolIdx])
    /\ poolIdx' = poolIdx + 1
    /\ UNCHANGED <<cfgVars, coalVars, taskVars, pipeVars, lagVars, scrapeVars>>
    /\ UNCHANGED <<poolTopics, poolPc, poolWg, topicChannel, loopTopics, deferred, handled, poolOut>>

\* The producer loop meets a topic the filter accepts: wg.Add(1), and the
\* goroutine is in "topicChannel <- topic" until a worker receives.
LegacySend ==
    /\ poolPc = "produce"
    /\ poolIdx <= Len(poolTopics)
    /\ LegacyAccepted(poolTopics[poolIdx])
    /\ poolWg' = poolWg + 1
    /\ poolPc' = "send"
    /\ UNCHANGED <<cfgVars, coalVars, taskVars, pipeVars, lagVars, scrapeVars>>
    /\ UNCHANGED <<poolTopics, poolIdx, topicChannel, loopTopics, deferred, handled, poolOut>>

\* "go loopTopics()" N times, after the producer loop.
LegacyStartWorkers ==
    /\ poolPc = "produce"
    /\ poolIdx > Len(poolTopics)
    /\ loopTopics' = StartWorkers(NumWorkers(Len(poolTopics), topicWorkers))
    /\ poolPc' = "close"
    /\ UNCHANGED <<cfgVars, coalVars, taskVars, pipeVars, lagVars, scrapeVars>>
    /\ UNCHANGED <<poolTopics, poolIdx, poolWg, topicChannel, deferred, handled, poolOut>>

\* close(topicChannel)
LegacyCloseTopics ==
    /\ poolPc = "close"
    /\ topicChannel' = "closed"
    /\ poolPc' = "wait"
    /\ UNCHANGED <<cfgVars, coalVars, taskVars, pipeVars, lagVars, scrapeVars>>
    /\ UNCHANGED <<poolTopics, poolIdx, poolWg, loopTopics, deferred, handled, poolOut>>

\* One turn of a worker's loop, "topic, open := <-topicChannel": it
\* completes when the producer is in its send or the channel is closed.
\* With a topic the worker defers wg.Done() to the end of loopTopics and
\* calls getTopicMetrics; on the closed channel it ends, and its deferred
\* calls run.
LegacyLoopTopics(w) ==
    /\ w \in Receiving
    /\ poolPc = "send" \/ topicChannel = "closed"
    /\ IF poolPc = "send"
       THEN /\ handled' = handled (+) SetToBag({<<w, poolTopics[poolIdx]>>})
            /\ deferred' = [deferred EXCEPT ![w] = @ + 1]
            /\ poolPc' = "produce"
            /\ poolIdx' = poolIdx + 1
            /\ UNCHANGED <<poolWg, loopTopics>>
       ELSE /\ loopTopics' = [loopTopics EXCEPT ![w] = "exit"]
            /\ poolWg' = poolWg - deferred[w]
            /\ deferred' = [deferred EXCEPT ![w] = 0]
            /\ UNCHANGED <<poolPc, poolIdx, handled>>
    /\ UNCHANGED <<cfgVars, coalVars, taskVars, pipeVars, lagVars, scrapeVars>>
    /\ UNCHANGED <<poolTopics, topicChannel, poolOut>>

\* wg.Wait(): the barrier before the consumer-group fan-out.
LegacyWait ==
    /\ poolPc = "wait"
    /\ poolWg = 0
    /\ poolPc' = "groups"
    /\ UNCHANGED <<cfgVars, coalVars, taskVars, pipeVars, lagVars, scrapeVars>>
    /\ UNCHANGED <<poolTopics, poolIdx, poolWg, topicChannel, loopTopics, deferred, handled, poolOut>>

InitLegacy ==
    /\ InitPoolEnv
    /\ poolPc = "produce"

NextLegacy ==
    \/ LegacySkipTopic
    \/ LegacySend
    \/ LegacyStartWorkers
    \/ LegacyCloseTopics
    \/ LegacyWait
    \/ \E w \in PoolWorkers : LegacyLoopTopics(w)

SpecLegacy ==
    InitLegacy /\ [][NextLegacy]_vars

\* ------------------------------------------- claims on the coalescer

\* A collect run launched by collectChans is in progress.
InProgress(k) ==
    tpc[k] = "collect" /\ ppc[k] # "ret"

\* The Collect call's waiter has been closed and the call has yet to return.
Woken(c) ==
    cpc[c] = "waiting" /\ waiter[c] \in closedCh

\* C1: in serialized mode, whatever the number and interleaving of Collect
\* calls, at most one run of the pipeline launched by collectChans is in
\* progress at any moment.
C1_AtMostOneCollection ==
    Cardinality({k \in Calls : InProgress(k)}) <= 1

\* Two Collect calls are registered while a collection is in progress.
C1_Witness ==
    \E k \in Calls : InProgress(k) /\ sent[k] # <<>> /\ Len(sgChans) >= 2

\* C2: once the waiter of a batch is closed, every sink of the batch has
\* received every metric the pipeline sent during that collection, the last
\* one included, so the Collect call owning the sink returns with all of them.
C2_EverySinkReceivesAll ==
    \A c \in Calls :
        Woken(c) => BagOfSeq(sent[waiter[c]]) \sqsubseteq BagOfSeq(sink[c])

\* C3: the sinks of one batch observe identical metric multisets.
C3_SinksIdentical ==
    \A c, d \in Calls :
        (Woken(c) /\ Woken(d) /\ waiter[c] = waiter[d])
            => BagOfSeq(sink[c]) = BagOfSeq(sink[d])

\* C4: with topicWorkers >= 1, broker calls that return and sinks that are
\* drained, every Collect call eventually returns.
C4_EveryCollectReturns ==
    \A c \in Calls :
        (cpc[c] = "waiting" /\ topicWorkers >= 1) ~> (cpc[c] = "returned")

\* A call that blocked on another call's waiter has returned, and a call that
\* arrived after a reset has started a collection of its own and returned.
C4_Witness ==
    /\ topicWorkers >= 1
    /\ \E c \in Calls : cpc[c] = "returned" /\ waiter[c] # c

\* ------------------------------------------- claims on the lag estimate

SetMax(S) ==
    CHOOSE x \in S : \A y \in S : y <= x

SetMin(S) ==
    CHOOSE x \in S : \A y \in S : x <= y

\* An estimate has been made; llocals holds its locals.
Estimated ==
    llocals # <<>>

\* The sampled offsets of the key the last estimate was made for.
Sampled ==
    DOMAIN iMap[llocals.key]

\* The metrics in lout for a key.
MetricsFor(key) ==
    {i \in 1..Len(lout) : lout[i][2] = <<key[1], key[2], FormatInt(key[3])>>}

\* The last two metrics sent.
LastTwo ==
    SubSeq(lout, Len(lout) - 1, Len(lout))

ScenarioKey ==
    <<"g", "t", 0>>

\* The timeline {100 -> T0, 200 -> T0+10s, 300 -> T0+20s} of scenarios D and E.
ScenarioTimeline ==
    (100 :> T0) @@ (200 :> T0 + Millis(10000)) @@ (300 :> T0 + Millis(20000))

\* The last estimate was made for the scenario's key and timeline with
\* committed offset c at now = T0+30s.
Scenario(c) ==
    /\ Estimated
    /\ llocals.key = ScenarioKey
    /\ iMap[ScenarioKey] = ScenarioTimeline
    /\ llocals.c = c
    /\ llocals.now = T0 + Millis(30000)

\* C5: in the interpolation branch with p_0 <= c < p_{n-1}, the upper bound is
\* the smallest sampled offset >= c and the lower bound is the largest sampled
\* offset < c (where there is one): the bracket is the tightest.
C5_TightestBracket ==
    (/\ Estimated
     /\ llocals.method = "interpolation"
     /\ SetMin(Sampled) <= llocals.c
     /\ llocals.c < SetMax(Sampled))
    => /\ llocals.upper = SetMin({o \in Sampled : o >= llocals.c})
       /\ \A d \in Sampled : d < llocals.c =>
             llocals.lower = SetMax({o \in Sampled : o < llocals.c})

\* C6: with c at or beyond the newest sample, the interpolation branch is
\* taken with U = p_{n-1} and D = p_{n-2}.
C6_BeyondNewest ==
    (Estimated /\ llocals.c >= SetMax(Sampled))
    => /\ llocals.method = "interpolation"
       /\ llocals.upper = SetMax(Sampled)
       /\ llocals.lower = SetMax(Sampled \ {SetMax(Sampled)})

\* c is beyond the newest of three samples or more, so that p_{n-2} # p_0.
C6_Witness ==
    /\ Estimated
    /\ llocals.c > SetMax(Sampled)
    /\ Cardinality(Sampled) >= 3
    /\ llocals.lower = SetMax(Sampled \ {SetMax(Sampled)})

\* lag_ms = now_ms - (t(H) - (H - c) * (t(H) - t(L)) / (H - L)) over the samples
\* of the last estimate, in milliseconds.
ExpectedLag(H, L) ==
    LET offsets == iMap[llocals.key]
        dt == SubMilliseconds(offsets[H], offsets[L])
    IN  Rat((UnixMilli(llocals.now) - UnixMilli(offsets[H])) * (H - L)
               + (H - llocals.c) * dt, H - L)

\* C7: with c < p_0 the extrapolation branch is taken with H = p_{n-1} and
\* L = p_0, the lag is now_ms - px_ms with px_ms = t(H) - (H-c)(t(H)-t(L))/(H-L),
\* and scenario E (c = 50) emits 35000 ms with the extrapolation counter.
C7_Extrapolation ==
    /\ (Estimated /\ llocals.c < SetMin(Sampled))
       => /\ llocals.method = "extrapolation"
          /\ llocals.upper = SetMax(Sampled)
          /\ llocals.lower = SetMin(Sampled)
          /\ llocals.lagMillis = ExpectedLag(SetMax(Sampled), SetMin(Sampled))
          /\ LastTwo = << <<"kafka_consumer_lag_extrapolation",
                            <<llocals.key[1], llocals.key[2], FormatInt(llocals.key[3])>>,
                            <<1, 1>> >>,
                          <<"kafka_consumer_lag_millis",
                            <<llocals.key[1], llocals.key[2], FormatInt(llocals.key[3])>>,
                            llocals.lagMillis>> >>
    /\ Scenario(50)
       => LastTwo[2] = <<"kafka_consumer_lag_millis", <<"g", "t", "0">>, <<35000, 1>> >>

\* Scenario E has been estimated.
C7_Witness ==
    /\ Scenario(50)
    /\ llocals.method = "extrapolation"
    /\ llocals.upper = 300
    /\ llocals.lower = 100

\* C8: scenario D (c = 250) emits kafka_consumer_lag_millis = 15000 for
\* (g,t,0) with the interpolation counter and without the extrapolation counter.
C8_ScenarioD ==
    Scenario(250)
    => /\ LastTwo = << <<"kafka_consumer_lag_interpolation", <<"g", "t", "0">>, <<1, 1>> >>,
                       <<"kafka_consumer_lag_millis", <<"g", "t", "0">>, <<15000, 1>> >> >>
       /\ \A i \in MetricsFor(ScenarioKey) : lout[i][1] # "kafka_consumer_lag_extrapolation"

\* Scenario D has been estimated.
C8_Witness ==
    /\ Scenario(250)
    /\ llocals.method = "interpolation"
    /\ Len(lout) >= 2

\* C9: a key with fewer than two samples, or with no block in the response,
\* gets none of the three lag metrics, and the pass goes on: once the
\* partitions of the pair are done, every other key of the pair has its estimate.
C9_SkipsEmitNothing ==
    /\ \A key \in DOMAIN iMap :
          Cardinality(DOMAIN iMap[key]) < 2 => MetricsFor(key) = {}
    /\ lpc = "partitions"
       => \A p \in PartitionsOf(lcur) :
             /\ p \notin DOMAIN lresp => MetricsFor(CurKey(p)) = {}
             /\ (/\ lparts = {}
                 /\ p \in DOMAIN lresp
                 /\ Cardinality(DOMAIN iMap[CurKey(p)]) >= 2)
                => \E i \in MetricsFor(CurKey(p)) : lout[i][1] = "kafka_consumer_lag_millis"

\* One partition of the pair was skipped and the other one estimated,
\* for each of the two reasons for skipping.
C9_Witness ==
    /\ lpc = "partitions"
    /\ lparts = {}
    /\ Estimated
    /\ llocals.key = CurKey(1)
    /\ MetricsFor(CurKey(1)) # {}
    /\ 0 \in PartitionsOf(lcur)
    /\ MetricsFor(CurKey(0)) = {}
    /\ \/ Cardinality(DOMAIN iMap[CurKey(0)]) < 2 /\ 0 \in DOMAIN lresp
       \/ Cardinality(DOMAIN iMap[CurKey(0)]) >= 2 /\ 0 \notin DOMAIN lresp

\* C10: a negative lag is sent as the kafka_consumer_lag_millis value as it is.
C10_NegativeLagUnchanged ==
    (/\ Estimated
     /\ ExpectedLag(llocals.upper, llocals.lower)[1] < 0)
    => /\ LastTwo[2][1] = "kafka_consumer_lag_millis"
       /\ LastTwo[2][3] = ExpectedLag(llocals.upper, llocals.lower)
       /\ LastTwo[2][3][1] < 0

\* c beyond the newest sample gave a production time after now.
C10_Witness ==
    /\ Estimated
    /\ llocals.c > SetMax(Sampled)
    /\ llocals.lagMillis[1] < 0
    /\ LastTwo[2][3][1] < 0

\* The number of metrics called name that lout holds for a key.
CountFor(key, name) ==
    Cardinality({i \in MetricsFor(key) : lout[i][1] = name})

\* C11: for every key, kafka_consumer_lag_millis is sent iff exactly one of the
\* two counters is sent with the same labels, each of the three at most once,
\* and the counter is the extrapolation one iff c < p_0.
C11_LagWithOneCounter ==
    /\ \A key \in LagKeys :
          LET lag == CountFor(key, "kafka_consumer_lag_millis")
              inter == CountFor(key, "kafka_consumer_lag_interpolation")
              extra == CountFor(key, "kafka_consumer_lag_extrapolation")
          IN  /\ lag <= 1
              /\ inter <= 1
              /\ extra <= 1
              /\ lag = inter + extra
    /\ lpc = "partitions"
       => \A p \in DOMAIN lresp :
             MetricsFor(CurKey(p)) # {}
             => (CountFor(CurKey(p), "kafka_consumer_lag_extrapolation") = 1
                 <=> lresp[p] < SetMin(DOMAIN iMap[CurKey(p)]))

\* Both partitions of the pair were estimated, one by each method, one of
\* them with c = p_0.
C11_Witness ==
    /\ lpc = "partitions"
    /\ lparts = {}
    /\ DOMAIN lresp = {0, 1}
    /\ lresp[0] = SetMin(DOMAIN iMap[CurKey(0)])
    /\ CountFor(CurKey(0), "kafka_consumer_lag_interpolation") = 1
    /\ CountFor(CurKey(1), "kafka_consumer_lag_extrapolation") = 1
    /\ Len(lout) = 4

\* C12: the estimate is a function of the sample map, c and now: whatever the
\* order in which the range over the map gave the keys, the branch, the bounds
\* and the lag are the ones of the estimate made.
C12_Deterministic ==
    Estimated
    => \A keys \in RangeOrders(Sampled) :
          LET est == Estimate(keys, iMap[llocals.key], llocals.c, llocals.now)
          IN  /\ est.method = llocals.method
              /\ est.upper = llocals.upper
              /\ est.lower = llocals.lower
              /\ est.lagMillis = llocals.lagMillis

\* An estimate over three samples, which a range can give in six orders.
C12_Witness ==
    /\ Estimated
    /\ Cardinality(RangeOrders(Sampled)) >= 6
    /\ llocals.method = "interpolation"
    /\ llocals.upper # llocals.lower

\* ------------------------------------------- claims on the full scrape

\* The metrics called name that the scrape has sent.
Sent(name) ==
    {m \in BagToSet(sout) : m[1] = name}

\* How many metrics called name the scrape has sent.
SentCount(name) ==
    SumOver(Sent(name), [m \in Sent(name) |-> CopiesIn(m, sout)])

\* The metrics called name with the given labels.
SentFor(name, labels) ==
    {m \in Sent(name) : m[2] = labels}

\* The scrape has returned.
ScrapeDone ==
    spc = "done"

\* C13: a scrape sends exactly one kafka_brokers metric, whose value is the
\* number of kafka_broker_info metrics it sends, also when the topic list
\* cannot be fetched and when the client's broker set changes meanwhile.
C13_BrokersCountMatchesInfo ==
    ScrapeDone
    => /\ SentCount("kafka_brokers") = 1
       /\ \A m \in Sent("kafka_brokers") : m[3] = Float(SentCount("kafka_broker_info"))

\* C14: where both kafka_consumergroup_lag and the topic's
\* kafka_topic_partition_current_offset are sent for (group, topic, partition),
\* the lag is the newest offset sent minus the kafka_consumergroup_current_offset
\* sent, or -1 when the committed offset is -1.
C14_LagIsNewestMinusCommitted ==
    \A m \in Sent("kafka_consumergroup_lag") :
       \A n \in SentFor("kafka_topic_partition_current_offset", <<m[2][2], m[2][3]>>) :
          \A c \in SentFor("kafka_consumergroup_current_offset", m[2]) :
             m[3] = IF c[3] = Float(-1) THEN Float(-1) ELSE Float(n[3][1] - c[3][1])

\* A scrape sent a lag of -1 for one partition of (g, t) and a lag of
\* newest - committed for the other one.
C14_Witness ==
    /\ ScrapeDone
    /\ SentFor("kafka_consumergroup_lag", <<"g", "t", "0">>) = {Metric("kafka_consumergroup_lag", <<"g", "t", "0">>, -1)}
    /\ SentFor("kafka_consumergroup_lag", <<"g", "t", "1">>) = {Metric("kafka_consumergroup_lag", <<"g", "t", "1">>, 160)}
    /\ SentFor("kafka_topic_partition_current_offset", <<"t", "1">>) # {}
    /\ SentFor("kafka_consumergroup_current_offset", <<"g", "t", "1">>) # {}

\* The lag metrics sent for (group, topic) whose partition has a committed
\* offset sent that is not -1.
CommittedLags(g, T) ==
    {m \in Sent("kafka_consumergroup_lag") :
        /\ m[2][1] = g
        /\ m[2][2] = T
        /\ \E c \in SentFor("kafka_consumergroup_current_offset", m[2]) : c[3] # Float(-1)}

\* C15: a kafka_consumergroup_lag_sum sent for (group, topic) is the sum of the
\* kafka_consumergroup_lag values sent for that group and topic over the
\* partitions whose committed offset is not -1.
C15_LagSumIsSumOfLags ==
    \A m \in Sent("kafka_consumergroup_lag_sum") :
       LET lags == CommittedLags(m[2][1], m[2][2])
       IN  m[3] = Float(SumOver(lags, [l \in lags |-> l[3][1]]))

\* A lag sum over one partition with a commit and one without.
C15_Witness ==
    /\ ScrapeDone
    /\ Metric("kafka_consumergroup_lag", <<"g", "t", "0">>, 60) \in BagToSet(sout)
    /\ Metric("kafka_consumergroup_lag", <<"g", "t", "1">>, -1) \in BagToSet(sout)
    /\ Metric("kafka_consumergroup_lag_sum", <<"g", "t">>, 60) \in BagToSet(sout)

\* Group g is listed, described and fetched without a failure, (t, 0) is in
\* its request and its newest offset is known.
ScenarioC ==
    /\ ScrapeDone
    /\ faults = {}
    /\ TopicAccepted("t")
    /\ GroupAccepted("g")
    /\ <<"t", 0>> \in Requested("g")
    /\ committed["g"][<<"t", 0>>] = -1

GroupTopicNames ==
    {"kafka_consumergroup_current_offset", "kafka_consumergroup_current_offset_sum",
     "kafka_consumergroup_lag", "kafka_consumergroup_lag_sum"}

\* Group g is reported for topic T: one of the four metrics or a timeline update.
Reported(g, T) ==
    \/ \E m \in BagToSet(sout) :
          m[1] \in GroupTopicNames /\ m[2][1] = g /\ m[2][2] = T
    \/ \E u \in updates : u[1] = g /\ u[2] = T

\* C17: a group is reported for a topic only if a partition block of that
\* topic in its OffsetFetch response has an offset other than -1.
C17_ReportedOnlyIfConsumed ==
    \A g \in SGroups : \A T \in {"t", "x"} :
       Reported(g, T)
       => \E tp \in Requested(g) : tp[1] = T /\ committed[g][tp] # -1

\* Group g has no commit on t and is not reported for it, and is reported for x.
C17_Witness ==
    /\ ScrapeDone
    /\ faults = {}
    /\ \E tp \in Requested("g") : tp[1] = "t"
    /\ \A tp \in Requested("g") : tp[1] = "t" => committed["g"][tp] = -1
    /\ ~Reported("g", "t")
    /\ Reported("g", "x")

\* The metrics with a topic label, by the position of the label.
TopicNames ==
    {"kafka_topic_partitions", "kafka_topic_partition_leader",
     "kafka_topic_partition_current_offset", "kafka_topic_partition_oldest_offset",
     "kafka_topic_partition_replicas", "kafka_topic_partition_in_sync_replica",
     "kafka_topic_partition_leader_is_preferred",
     "kafka_topic_partition_under_replicated_partition"}

GroupNames ==
    GroupTopicNames \cup {"kafka_consumergroup_members", "kafka_consumergroupzookeeper_lag_zookeeper"}

\* The topics and the groups that appear as labels of the metrics sent.
TopicsSent ==
    {m[2][1] : m \in {n \in BagToSet(sout) : n[1] \in TopicNames}}
    \cup {m[2][2] : m \in {n \in BagToSet(sout) : n[1] \in GroupNames /\ Len(n[2]) >= 2}}

GroupsSent ==
    {m[2][1] : m \in {n \in BagToSet(sout) : n[1] \in GroupNames}}

\* C18: a topic appears as a label of a metric sent iff topicFilter matches it
\* and topicExclude does not; a group appears iff groupFilter matches it and
\* groupExclude does not.  (Only a scrape without a failure is held to the "if".)
C18_FiltersDecideLabels ==
    /\ \A T \in TopicsSent : TopicAccepted(T)
    /\ \A g \in GroupsSent : GroupAccepted(g)
    /\ (ScrapeDone /\ faults = {})
       => /\ \A T \in {"t", "x"} : TopicAccepted(T) => T \in TopicsSent
          /\ \A g \in SGroups : GroupAccepted(g) => g \in GroupsSent

\* The metrics of a partition whose value comes from the result of an RPC.
DerivedFrom(rpc) ==
    CASE rpc = "Leader" -> {"kafka_topic_partition_leader", "kafka_topic_partition_leader_is_preferred"}
      [] rpc = "Newest" -> {"kafka_topic_partition_current_offset", "kafka_consumergroupzookeeper_lag_zookeeper"}
      [] rpc = "Oldest" -> {"kafka_topic_partition_oldest_offset"}
      [] rpc = "Replicas" -> {"kafka_topic_partition_replicas", "kafka_topic_partition_leader_is_preferred",
                              "kafka_topic_partition_under_replicated_partition"}
      [] rpc = "InSyncReplicas" -> {"kafka_topic_partition_in_sync_replica",
                                    "kafka_topic_partition_under_replicated_partition"}

PartitionRpcs ==
    {"Leader", "Newest", "Oldest", "Replicas", "InSyncReplicas"}

\* The metric each RPC of a partition gives when it succeeds.
OwnMetric(rpc) ==
    CASE rpc = "Leader" -> "kafka_topic_partition_leader"
      [] rpc = "Newest" -> "kafka_topic_partition_current_offset"
      [] rpc = "Oldest" -> "kafka_topic_partition_oldest_offset"
      [] rpc = "Replicas" -> "kafka_topic_partition_replicas"
      [] rpc = "InSyncReplicas" -> "kafka_topic_partition_in_sync_replica"

\* The metrics called name sent for partition (T, p), under any group.
SentForPartition(name, T, p) ==
    {m \in Sent(name) :
        \/ m[2] = <<T, FormatInt(p)>>
        \/ Len(m[2]) = 3 /\ Tail(m[2]) = <<T, FormatInt(p)>>}

\* C19: when an RPC of a partition fails, no metric derived from its result is
\* sent for that partition, and the metrics of its RPCs that succeed are sent.
C19_FailedRpcOmitsDerived ==
    ScrapeDone
    => \A tp \in AllPartitions :
          SentFor("kafka_topic_partitions", <<tp[1]>>) # {}
          => \A rpc \in PartitionRpcs :
                IF Fails(<<rpc, tp[1], tp[2]>>)
                THEN \A name \in DerivedFrom(rpc) : SentForPartition(name, tp[1], tp[2]) = {}
                ELSE SentForPartition(OwnMetric(rpc), tp[1], tp[2]) # {}

\* The faults that concern group g alone.
FaultsOfG ==
    {<<"FetchOffset", "g">>, <<"Assignment", "g">>,
     <<"BlockErr", "g", "t", 0>>, <<"BlockErr", "g", "t", 1>>}

\* C20: no failure aborts a scrape: whatever failed, the consumer-group
\* fan-out and the lag pass have run when collect returns, and a failure that
\* concerns group g leaves the metrics of group h in place.
C20_NoFailureAborts ==
    ScrapeDone
    => /\ {"groups", "lag"} \subseteq ran
       /\ (faults \subseteq FaultsOfG /\ GroupAccepted("h"))
          => SentFor("kafka_consumergroup_members", <<"h">>) # {}

\* The partitions of topic T in the OffsetFetch request of group g.
RequestedOf(g, T) ==
    {tp[2] : tp \in {q \in Requested(g) : q[1] = T}}

\* The only failure of the scrape is the error code of block (g, T, p), the
\* block is in a response the scrape has gone through, and the blocks of T
\* make g a consumer of T.
BlockErrOnly(g, T, p) ==
    /\ ScrapeDone
    /\ faults = {<<"BlockErr", g, T, p>>}
    /\ GroupAccepted(g)
    /\ T \in topicFilter
    /\ p \in RequestedOf(g, T)
    /\ \E q \in RequestedOf(g, T) : committed[g][<<T, q>>] # -1

C22_RefreshIffDue ==
    /\ [][(spc = "refresh" /\ spc' # "refresh")
            => /\ refreshed' <=> (snow >= nextMetadataRefresh)
               /\ refreshed' => nextMetadataRefresh' = snow + MetadataRefreshInterval]_vars
    /\ [](ScrapeDone /\ refreshed /\ Fails(<<"RefreshMetadata">>) /\ ~Fails(<<"Topics">>)
            => "topics" \in ran)

\* C25: every createOrUpdate of the scrape is called with the newest offset
\* of the partition that this scrape has put in its offset map and sent as
\* kafka_topic_partition_current_offset, not with the group's committed offset.
C25_TimelineKeyedByNewest ==
    \A u \in updates :
       /\ HasNewest(u[2], u[3])
       /\ u[4] = offset[u[2]][u[3]]
       /\ Metric("kafka_topic_partition_current_offset", <<u[2], FormatInt(u[3])>>, u[4])
             \in BagToSet(sout)

\* A scrape has stored the newest offset 200 of (t, 1) for group g, whose
\* committed offset is 40.
C25_Witness ==
    /\ ScrapeDone
    /\ <<"g", "t", 1, 200>> \in updates
    /\ committed["g"][<<"t", 1>>] = 40

\* C27: once the consumer-group goroutines are started no loopTopics
\* goroutine is handling a topic and the wait group is back at the count of
\* the fan-out: the offset map is written before it is read.
C27_TopicsBeforeGroups ==
    "groups" \in ran
    => /\ \A w \in SWorkers : sworker[w] \in {"off", "idle", "exit"}
       /\ swg = Cardinality(pending)

\* The consumer-group goroutines run on an offset map the topic workers filled.
C27_Witness ==
    /\ "groups" \in ran
    /\ pending # {}
    /\ DOMAIN offset = {"t", "x"}

\* C28: when the lag pass of a scrape starts, every getConsumerGroupMetrics
\* goroutine of that scrape, and so every createOrUpdate it makes, has ended.
C28_UpdatesBeforeLagPass ==
    (spc = "lag" \/ "lag" \in ran) => pending = {}

\* The lag pass has run after group workers that stored samples.
C28_Witness ==
    /\ "lag" \in ran
    /\ updates # {}
    /\ "groups" \in ran

\* ------------------------------- claims on the coalescer, continued

\* The elements of a sequence.
Range(s) ==
    {s[i] : i \in DOMAIN s}

\* C26: a waiting Collect call holds the waiter that was current when it
\* registered; until that channel is closed the call's sink is registered
\* and the channel is still the current one of a run that has not ended.  The
\* channel is closed once, by the run that holds sgMutex and has replayed to
\* the sink of every call waiting on it.
C26_WaiterOfOwnBatch ==
    /\ [](\A c \in Calls :
             cpc[c] = "waiting"
             => /\ waiter[c] \in Calls
                /\ tpc[waiter[c]] # "none"
                /\ waiter[c] \notin closedCh
                   => /\ c \in Range(sgChans)
                      /\ sgWaitCh = waiter[c]
                      /\ tpc[waiter[c]] # "done"
                /\ waiter[c] \in closedCh => c \notin Range(sgChans))
    /\ [][\A k \in Calls :
             /\ (tpc[k] = "outer" /\ tpc'[k] = "done") => k \notin closedCh
             /\ (k \notin closedCh /\ k \in closedCh')
                => /\ sgMutex = k
                   /\ rp.i > Len(rp.chans)
                   /\ \A c \in Calls :
                         (cpc[c] = "waiting" /\ waiter[c] = k) => c \in Range(rp.chans)]_vars

\* A second batch is in progress with a fresh waiter while a call of the
\* first batch, whose waiter is closed, has yet to return.
C26_Witness ==
    \E c, d \in Calls :
       /\ Woken(c)
       /\ cpc[d] = "waiting"
       /\ waiter[d] # waiter[c]
       /\ waiter[d] \notin closedCh
       /\ sgWaitCh = waiter[d]

\* The pool of run k has no worker although a topic passes the filter.
NoWorkerForTopic(k) ==
    /\ topicWorkers = 0
    /\ Len(ptopics[k]) >= 2
    /\ \E i \in DOMAIN ptopics[k] : ptopics[k][i]

\* C30: with topicWorkers = 0, two topics or more and a topic that passes the
\* filter, the producer stays blocked on the send of the first such topic:
\* collect does not return, the waiter of the batch is not closed and no
\* Collect call waiting on it returns.
C30_ZeroWorkersBlock ==
    \A k \in Calls :
       NoWorkerForTopic(k)
       => /\ ppc[k] = "produce"
          /\ \A i \in 1..(pidx[k] - 1) : ~ptopics[k][i]
          /\ tpc[k] = "collect"
          /\ k \notin closedCh
          /\ \A c \in Calls : waiter[c] = k => cpc[c] = "waiting"

\* The producer is at a topic that passes the filter, there is no worker, and
\* two Collect calls wait on the batch.
C30_Witness ==
    \E k \in Calls :
       /\ NoWorkerForTopic(k)
       /\ pidx[k] <= Len(ptopics[k])
       /\ ptopics[k][pidx[k]]
       /\ \A c \in Calls : cpc[c] = "waiting" /\ waiter[c] = k

\* ------------------------------------------- claims on the timeline

\* The samples the entry of a key holds.
Samples(key) ==
    Cardinality(DOMAIN iMap[key])

Min(a, b) ==
    IF a < b THEN a ELSE b

\* C23 as stated: after N scrapes every timeline entry holds min(N,
\* maxSamplesPerKey) samples at most, in every state, whatever the
\* interleaving of scrapes and pruner ticks.
C23_SamplesAtMostMin ==
    \A key \in DOMAIN iMap : Samples(key) <= Min(started, MaxOffsets)

\* C23 as amended: after N scrapes every timeline entry holds N samples at
\* most in every state, and maxSamplesPerKey samples at most in the state a
\* prune leaves.
C23_SamplesAtMostScrapes ==
    /\ [](\A key \in DOMAIN iMap : Samples(key) <= started)
    /\ [][(prunerPc = "pruning" /\ prunerPc' # "pruning")
            => \A key \in DOMAIN iMap' : Cardinality(DOMAIN iMap'[key]) <= MaxOffsets]_vars

\* An entry holds more samples than maxSamplesPerKey, one for each scrape
\* made, while the pruner is running.
C23_Witness ==
    /\ prunerPc = "ticking"
    /\ \E key \in DOMAIN iMap : Samples(key) = started /\ Samples(key) > MaxOffsets

\* C24: a tick whose client cannot be constructed leaves the timeline as it
\* is and the pruner running: unless told to quit, RunPruner is there for the
\* next tick.
C24_PrunerSurvivesFailedTick ==
    /\ [][(~tickFailed /\ tickFailed') => iMap' = iMap]_vars
    /\ []((tickFailed /\ ~quit) => prunerPc # "stopped")

\* A writer is inside the table: createOrUpdate or Prune.
Mutating ==
    \/ \E s \in Scrapes : tscr[s] = "table"
    \/ prunerPc = "pruning"

\* A lag pass is ranging over the table.
Iterating ==
    \E s \in Scrapes : tscr[s] = "iterating"

\* C29: no createOrUpdate or Prune is inside the table while a lag pass
\* ranges over it, in either mode and with the pruner ticking: the pass holds
\* the mutex of the table from its first to its last step, and so does every
\* writer.
C29_MutationExcludesIteration ==
    /\ ~(Mutating /\ Iterating)
    /\ (Mutating \/ Iterating) => iMu

\* In concurrent mode a lag pass ranges over the table while the group
\* worker of another scrape waits in createOrUpdate, the pruner still ticking.
C29_Witness ==
    /\ allowConcurrent
    /\ prunerPc = "ticking"
    /\ iMap # <<>>
    /\ \E s, r \in Scrapes : tscr[s] = "iterating" /\ tscr[r] = "mu"

\* ------------------------------------------------ claims on the topic pool

\* The topics of the list that the filters accept.
PoolAccepted ==
    {poolTopics[i] : i \in {j \in 1..Len(poolTopics) : TopicAccepted(poolTopics[j])}}

\* The topics the producer loop has gone past.
PoolPassed ==
    {poolTopics[i] : i \in 1..(poolIdx - 1)}

\* How many getTopicMetrics calls have been made for a topic, over all workers.
HandledCount(T) ==
    SumOver(PoolWorkers, [w \in PoolWorkers |-> CopiesIn(<<w, T>>, handled)])

\* The workers that have been started are through.
WorkersGone ==
    \A w \in PoolWorkers : loopTopics[w] \in {"off", "exit"}

\* C31: with topicWorkers >= 1, for every topic list and every filter, the
\* topic phase of collect ends: every accepted topic the producer has gone
\* past has been received by a worker, the wait group's counter is never
\* negative and is zero once the barrier is passed, by when every accepted
\* topic has been handled, and at last the barrier is passed and every
\* worker that was started has ended.
C31_TopicPhaseTerminates ==
    /\ [](topicWorkers >= 1 =>
            /\ poolWg >= 0
            /\ \A T \in PoolAccepted \cap PoolPassed :
                  HandledCount(T) > 0 \/ \E w \in PoolWorkers : loopTopics[w] = T
            /\ poolPc = "groups" =>
                  /\ poolWg = 0
                  /\ \A T \in PoolAccepted : HandledCount(T) > 0)
    /\ (topicWorkers >= 1) ~> (poolPc = "groups" /\ WorkersGone)

\* Two workers have shared the accepted topics, the barrier is passed and
\* both have ended.
C31_Witness ==
    /\ topicWorkers >= 1
    /\ poolPc = "groups"
    /\ topicChannel = "closed"
    /\ \A w \in 1..2 : loopTopics[w] = "exit" /\ \E T \in PoolAccepted : CopiesIn(<<w, T>>, handled) > 0

\* C32: in the legacy variant of collect the topic workers are consuming
\* before the producer blocks on the unbuffered topic channel: whenever the
\* producer is in its send "topicChannel <- topic", a loopTopics goroutine
\* has been started to receive it, so that the topic phase can go on to the
\* consumer-group fan-out (topicWorkers >= 1).
C32_WorkersBeforeProducer ==
    topicWorkers >= 1 /\ poolPc = "send" => \E w \in PoolWorkers : loopTopics[w] # "off"

\* ------------------------------- claims on the coalescer, the replay

\* C33: in serialized mode no metric is sent to a sink after the Collect
\* call that registered it has returned: a sink receives only while its call
\* waits on a waiter not yet closed, and only from the run of its own batch,
\* which holds sgMutex; that run closes the waiter after its replay loop has
\* gone through every sink of the batch.
C33_NoSendAfterReturn ==
    [][/\ \A c \in Calls :
             Len(sink'[c]) > Len(sink[c])
             => /\ cpc[c] = "waiting"
                /\ waiter[c] \notin closedCh
                /\ sgMutex = waiter[c]
                /\ tpc[waiter[c]] = "inner"
       /\ \A k \in Calls :
             (k \notin closedCh /\ k \in closedCh')
             => /\ rp.i > Len(rp.chans)
                /\ tpc'[k] = "done"]_vars

\* The run of a batch of two sinks has replayed to both and has yet to
\* close their waiter.
C33_Witness ==
    \E c, d \in Calls :
       /\ c # d
       /\ waiter[c] = waiter[d]
       /\ cpc[c] = "waiting" /\ cpc[d] = "waiting"
       /\ sgMutex = waiter[c]
       /\ waiter[c] \notin closedCh
       /\ sink[c] # <<>> /\ sink[d] # <<>>

\* The collectChans runs that have been launched and have not ended.
TasksAlive ==
    {k \in Calls : tpc[k] \notin {"none", "done"}}

\* C34: in serialized mode, in every state in which sgMutex is not held,
\* sgChans is non-empty iff exactly one collectChans run is pending or
\* running, and is empty iff there is none; sgChans is emptied only by
\* collectChans, in the critical section of its replay and in one step with
\* the closing of the waiter.
C34_SinksIffOneTask ==
    /\ [](sgMutex = 0 =>
            /\ sgChans # <<>> <=> Cardinality(TasksAlive) = 1
            /\ sgChans = <<>> <=> TasksAlive = {})
    /\ [][(sgChans # <<>> /\ sgChans' = <<>>)
          => \E k \in Calls :
                /\ sgMutex = k
                /\ tpc[k] = "outer" /\ rp.i > Len(rp.chans)
                /\ tpc'[k] = "done"
                /\ k \notin closedCh /\ k \in closedCh'
                /\ sgMutex' = 0]_vars

\* A first batch has been replayed and emptied, and a second one is
\* registered with its run in progress.
C34_Witness ==
    /\ sgMutex = 0
    /\ sgChans # <<>>
    /\ \E k, j \in Calls : tpc[k] = "done" /\ tpc[j] = "collect" /\ TasksAlive = {j}

\* ------------------------------- claims on the lag estimate, the bounds

\* C35: the lag estimator never divides by zero: for every timeline entry of
\* two or more offsets and every committed offset c, the upper bound of the
\* estimate is above its lower bound, H - L > 0 in the extrapolation branch
\* and getNextHigherOffset > getNextLowerOffset in the interpolation branch,
\* and both bounds are sampled offsets of the entry.
C35_BoundsApart ==
    Estimated
    => /\ llocals.upper - llocals.lower > 0
       /\ llocals.upper \in Sampled
       /\ llocals.lower \in Sampled

\* An interpolation with c equal to an inner sample of three or more.
C35_Witness ==
    /\ Estimated
    /\ llocals.method = "interpolation"
    /\ Cardinality(Sampled) >= 3
    /\ llocals.c \in Sampled \ {SetMin(Sampled), SetMax(Sampled)}
    /\ llocals.upper > llocals.lower

\* C36: for every timeline entry of two or more offsets and every c with
\* p_0 <= c <= p_{n-1}, the bounds the sweeps choose bracket c:
\* getNextLowerOffset(offsets, c) <= c <= getNextHigherOffset(offsets, c).
C36_BoundsBracket ==
    (/\ Estimated
     /\ SetMin(Sampled) <= llocals.c
     /\ llocals.c <= SetMax(Sampled))
    => /\ llocals.method = "interpolation"
       /\ llocals.lower <= llocals.c
       /\ llocals.c <= llocals.upper

\* c lies strictly between two samples, and strictly between the bounds.
C36_Witness ==
    /\ Estimated
    /\ llocals.c \notin Sampled
    /\ SetMin(Sampled) < llocals.c
    /\ llocals.c < SetMax(Sampled)
    /\ llocals.lower < llocals.c
    /\ llocals.c < llocals.upper

\* ------------------------------- claims on the topic pool, continued

\* How many metrics with a name and labels the pool has sent.
PoolSentCount(name, labels) ==
    LET S == {m \in BagToSet(poolOut) : m[1] = name /\ m[2] = labels}
    IN  SumOver(S, [m \in S |-> CopiesIn(m, poolOut)])

\* C37: within one scrape every topic the filters accept is handled by
\* exactly one worker exactly once, and no other topic is handled, so that
\* kafka_topic_partitions is sent at most once per topic and each
\* per-partition topic metric at most once per (topic, partition), for any
\* number of workers and any scheduling of them.
C37_TopicHandledOnce ==
    /\ \A i \in 1..Len(poolTopics) :
          LET T == poolTopics[i]
              busy == Cardinality({w \in PoolWorkers : loopTopics[w] = T})
          IN  /\ HandledCount(T) + busy <= 1
              /\ ~TopicAccepted(T) => HandledCount(T) + busy = 0
              /\ (poolPc = "groups" /\ TopicAccepted(T)) => HandledCount(T) = 1
    /\ \A m \in BagToSet(poolOut) :
          /\ m[1] \in TopicNames
          /\ PoolSentCount(m[1], m[2]) <= 1

\* Two workers have handled three accepted topics or more between them, the
\* topic of two partitions among them, and the barrier is passed.
C37_Witness ==
    /\ poolPc = "groups"
    /\ Cardinality(PoolAccepted) >= 3
    /\ \A w \in 1..2 : \E T \in PoolAccepted : CopiesIn(<<w, T>>, handled) = 1
    /\ PoolSentCount("kafka_topic_partition_leader", <<"t", "1">>) = 1
    /\ PoolSentCount("kafka_topic_partitions", <<"x">>) = 1

\* ------------------------------- claims on the full scrape, the sums

\* The kafka_consumergroup_current_offset metrics sent for (group, topic).
CurrentOffsetsSent(g, T) ==
    {m \in Sent("kafka_consumergroup_current_offset") : m[2][1] = g /\ m[2][2] = T}

\* C38: a kafka_consumergroup_current_offset_sum sent for (group, topic) is
\* the sum of all the kafka_consumergroup_current_offset values sent in the
\* scrape for that group and topic, those of partitions whose committed
\* offset is -1 and of partitions whose newest offset is unknown included.
C38_OffsetSumIsSumOfOffsets ==
    \A m \in Sent("kafka_consumergroup_current_offset_sum") :
       LET cur == CurrentOffsetsSent(m[2][1], m[2][2])
       IN  m[3] = Float(SumOver(cur, [c \in cur |-> c[3][1]]))

\* A sum over one partition without a commit and one with a commit.
C38_Witness ==
    /\ ScrapeDone
    /\ \E p, q \in {0, 1} :
          /\ Metric("kafka_consumergroup_current_offset", <<"g", "t", FormatInt(p)>>, -1) \in BagToSet(sout)
          /\ Metric("kafka_consumergroup_current_offset", <<"g", "t", FormatInt(q)>>, 40) \in BagToSet(sout)
    /\ Metric("kafka_consumergroup_current_offset_sum", <<"g", "t">>, 39) \in BagToSet(sout)

\* The createOrUpdate calls of the scrape for a key.
UpdatesFor(g, T, p) ==
    {u \in updates : u[1] = g /\ u[2] = T /\ u[3] = p}

\* C39: within one scrape kafka_consumergroup_lag is sent for (group, topic,
\* partition) iff createOrUpdate is called for that key, which happens only
\* when the offset map of the scrape holds a newest offset for (topic,
\* partition); all the calls for a key carry one offset, so that a scrape adds
\* at most one sample to a timeline entry, and a block that is gone through
\* with a known newest offset gets its call also when its committed offset
\* is -1.
C39_LagIffTimelineUpdate ==
    \A g \in SGroups : \A tp \in AllPartitions :
       LET T == tp[1]
           p == tp[2]
           lbl == <<g, T, FormatInt(p)>>
       IN  /\ SentFor("kafka_consumergroup_lag", lbl) # {} <=> UpdatesFor(g, T, p) # {}
           /\ UpdatesFor(g, T, p) # {} => HasNewest(T, p)
           /\ Cardinality(UpdatesFor(g, T, p)) <= 1
           /\ (SentFor("kafka_consumergroup_current_offset", lbl) # {} /\ HasNewest(T, p))
              => UpdatesFor(g, T, p) # {}

\* The newest offset of (t, 0) is stored for group g, whose committed offset
\* for it is -1, and the lag sent is -1.
C39_Witness ==
    /\ ScrapeDone
    /\ committed["g"][<<"t", 0>>] = -1
    /\ UpdatesFor("g", "t", 0) = {<<"g", "t", 0, NewestOffset("t", 0)>>}
    /\ Metric("kafka_consumergroup_lag", <<"g", "t", "0">>, -1) \in BagToSet(sout)
    /\ Metric("kafka_consumergroup_current_offset", <<"g", "t", "0">>, -1) \in BagToSet(sout)

====
